---------------------------- MODULE Spec2Model ----------------------------
(***************************************************************************)
(* GlitchAgent: BrowserAutomationService of                                *)
(* backend/src/services/browser_automation_service.py.                     *)
(*                                                                         *)
(* The module models the session handles (start_browser, stop_browser),    *)
(* the executor state machine execute_actions with its retry loop and the  *)
(* oracle-assisted repair troubleshoot_action, and the click fallback      *)
(* chain _handle_click over an abstract page.                              *)
(***************************************************************************)
EXTENDS Integers, Sequences, FiniteSets, TLC

(***************************************************************************)
(* Bounds of the model and program constants.                              *)
(***************************************************************************)
MaxPlanLen == 2          \* longest plan handed to execute_actions
MaxOracleReplies == 2    \* longest scripted prefix of oracle replies
max_retries == 2         \* execute_actions: max_retries = 2

None == "None"           \* Python's None
Absent == "<absent>"     \* a key the oracle's JSON object does not hold

(***************************************************************************)
(* Error messages (str(e) of the exceptions the code can see).             *)
(***************************************************************************)
E_START == "browser start failed"
E_STOP == "browser close failed"
E_NOPAGE == "'NoneType' object has no attribute"
E_CLOSED == "Target page, context or browser has been closed"
E_TIMEOUT == "Timeout 30000ms exceeded"
E_VALUE == "required for action"
SessionErrors == {E_START, E_STOP}

(***************************************************************************)
(* The session: the four handles of BrowserAutomationService; TRUE is a    *)
(* handle that is set, FALSE is None.                                      *)
(***************************************************************************)
NoSession == [playwright |-> FALSE, browser |-> FALSE, context |-> FALSE, page |-> FALSE]
LiveSession == [playwright |-> TRUE, browser |-> TRUE, context |-> TRUE, page |-> TRUE]

MaxFailPoint == 2        \* last step of a start or stop the environment fails
FailPoints == 0..MaxFailPoint  \* 0: no step raises; k: the k-th awaited step raises

\* the environment's choices for a start or stop: none when it is not called
FailChoices(called) == IF called THEN FailPoints ELSE {0}

\* the handles set in s that a start_browser assigning the handles `made`
\* overwrites: sessions created while an earlier one is still unreleased
Overwritten(s, made) == {h \in made : s[h]}

\* a start_browser without the test of self.playwright: every call acquires
StartBrowser_Unconditional(s, up, failAt) ==
  IF failAt = 1 THEN [s |-> s, up |-> up, ok |-> FALSE, leaked |-> {}]
  ELSE IF failAt = 2
    THEN [s |-> [s EXCEPT !.playwright = TRUE], up |-> up, ok |-> FALSE,
          leaked |-> Overwritten(s, {"playwright"})]
  ELSE IF failAt = 3
    THEN [s |-> [s EXCEPT !.playwright = TRUE, !.browser = TRUE], up |-> up, ok |-> FALSE,
          leaked |-> Overwritten(s, {"playwright", "browser"})]
  ELSE IF failAt = 4
    THEN [s |-> [s EXCEPT !.playwright = TRUE, !.browser = TRUE, !.context = TRUE],
          up |-> up, ok |-> FALSE,
          leaked |-> Overwritten(s, {"playwright", "browser", "context"})]
  ELSE [s |-> LiveSession, up |-> TRUE, ok |-> TRUE, leaked |-> Overwritten(s, DOMAIN s)]

\* start_browser: a no-op when self.playwright is set; otherwise acquires
\* driver, browser, context, page in that order; step failAt raises and
\* leaves the handles acquired so far.  `up` tells whether the page answers;
\* `leaked` are the handles assigned while they still held a resource.
StartBrowser(s, up, failAt) ==
  IF s.playwright THEN [s |-> s, up |-> up, ok |-> TRUE, leaked |-> {}]
  ELSE IF failAt = 1 THEN [s |-> s, up |-> up, ok |-> FALSE, leaked |-> {}]
  ELSE IF failAt = 2
    THEN [s |-> [s EXCEPT !.playwright = TRUE], up |-> up, ok |-> FALSE, leaked |-> {}]
  ELSE IF failAt = 3
    THEN [s |-> [s EXCEPT !.playwright = TRUE, !.browser = TRUE], up |-> up, ok |-> FALSE,
          leaked |-> Overwritten(s, {"browser"})]
  ELSE IF failAt = 4
    THEN [s |-> [s EXCEPT !.playwright = TRUE, !.browser = TRUE, !.context = TRUE],
          up |-> up, ok |-> FALSE, leaked |-> Overwritten(s, {"browser", "context"})]
  ELSE [s |-> LiveSession, up |-> TRUE, ok |-> TRUE,
        leaked |-> Overwritten(s, {"browser", "context", "page"})]

\* the handles start_browser acquires and stop_browser releases
SessionSteps == 4

\* a stop_browser that closes each handle without testing it: a close on a
\* handle that is None raises
StopBrowser_Unguarded(s, failAt) ==
  IF ~s.page \/ failAt = 1 THEN [s |-> s, ok |-> FALSE, closes |-> 1]
  ELSE LET s1 == [s EXCEPT !.page = FALSE] IN
  IF ~s1.context \/ failAt = 2 THEN [s |-> s1, ok |-> FALSE, closes |-> 2]
  ELSE LET s2 == [s1 EXCEPT !.context = FALSE] IN
  IF ~s2.browser \/ failAt = 3 THEN [s |-> s2, ok |-> FALSE, closes |-> 3]
  ELSE LET s3 == [s2 EXCEPT !.browser = FALSE] IN
  IF ~s3.playwright \/ failAt = 4 THEN [s |-> s3, ok |-> FALSE, closes |-> 4]
  ELSE [s |-> [s3 EXCEPT !.playwright = FALSE], ok |-> TRUE, closes |-> 4]

\* the number of handles of s among hs that are set
Held(s, hs) == Cardinality({h \in hs : s[h]})

\* stop_browser: closes page, context, browser, driver in that order, each
\* only when set, clearing the handle after its close returned; a close that
\* raises leaves its handle and the later ones set.  `closes` counts the
\* close()/stop() calls made, the raising one included.
StopBrowser(s, failAt) ==
  IF s.page /\ failAt = 1 THEN [s |-> s, ok |-> FALSE, closes |-> 1]
  ELSE LET s1 == [s EXCEPT !.page = FALSE] IN
  IF s1.context /\ failAt = 2
    THEN [s |-> s1, ok |-> FALSE, closes |-> Held(s, {"page", "context"})]
  ELSE LET s2 == [s1 EXCEPT !.context = FALSE] IN
  IF s2.browser /\ failAt = 3
    THEN [s |-> s2, ok |-> FALSE, closes |-> Held(s, {"page", "context", "browser"})]
  ELSE LET s3 == [s2 EXCEPT !.browser = FALSE] IN
  IF s3.playwright /\ failAt = 4
    THEN [s |-> s3, ok |-> FALSE, closes |-> Held(s, DOMAIN s)]
  ELSE [s |-> [s3 EXCEPT !.playwright = FALSE], ok |-> TRUE, closes |-> Held(s, DOMAIN s)]

\* await self.page.evaluate("1 + 1") answers iff a page is held and it is up.
Connected(s, up) == s.page /\ up

\* stop_browser() then start_browser(), as the probes' handlers call them:
\* the session left behind, and the message of what raised (None: nothing)
Recreate(s, u, stopFail, startFail) ==
  LET sp == StopBrowser(s, stopFail)
      st == StartBrowser(sp.s, FALSE, startFail)
  IN  IF ~sp.ok THEN [s |-> sp.s, up |-> sp.s.page /\ u, raised |-> E_STOP, leaked |-> {}]
      ELSE IF ~st.ok
        THEN [s |-> st.s, up |-> FALSE, raised |-> E_START, leaked |-> st.leaked]
      ELSE [s |-> st.s, up |-> st.up, raised |-> None, leaked |-> st.leaked]

(***************************************************************************)
(* The page as _handle_click sees it.  A page tells, for every query the   *)
(* chain can make, the elements it resolves to in document order, and      *)
(* which elements are visible (a click on them returns within its          *)
(* timeout).                                                               *)
(***************************************************************************)
MaxMatches == 3          \* most elements a raw locator resolves to

Match(k) == <<"match", k>>     \* k-th element the raw locator resolves to
Other == <<"other", 0>>        \* an element found by role, text or link text
SubmitBtn == <<"submit", 0>>   \* an element found by a canonical selector
NoElement == <<"none", 0>>
Elements == {Match(k) : k \in 1..MaxMatches} \cup {Other, SubmitBtn}

Locators ==
  { "#go", "#missing", ".login-btn", "role:button[name='Go']", "role:",
    "text=Docs", "text:Sign in", "a[href='/docs']", "a[href]" }

\* locator.startswith("role:")
StartsWithRole(l) == l \in {"role:button[name='Go']", "role:"}
\* re.match(r'role:(\w+)(?:\[name=[\'"]([^\'"]+)[\'"]\])?', locator)
RoleMatch(l) == l \in {"role:button[name='Go']"}
\* locator.startswith("text=") or locator.startswith("text:")
StartsWithText(l) == l \in {"text=Docs", "text:Sign in"}
\* locator.startswith("a[href") or "href" in locator
MentionsHref(l) == l \in {"a[href='/docs']", "a[href]"}
\* re.search(r'href=[\'"]([^\'"]+)[\'"]', locator)
HrefPattern(l) == l \in {"a[href='/docs']"}
\* "login" in locator.lower() or "sign in" in locator.lower()
LoginHint(l) == l \in {".login-btn", "text:Sign in"}

\* the fixed list of canonical submit-button selectors, in the code's order
LoginSelectors ==
  << "input[type='submit']", "button[type='submit']", "button.btn-primary",
     ".btn-login", ".btn-signin" >>

E_STRICT == "strict mode violation: resolved to n elements"
\* "strict mode violation" in str(e) and "resolved to" in str(e)
IsStrictViolation(msg) == msg = E_STRICT

\* page.locator(sel): the elements a css selector resolves to
ResolveCss(page, sel) == IF sel \in page.canon THEN <<SubmitBtn>> ELSE <<>>

\* X.first.click(timeout=3000) / X.nth(k-1).click(timeout=3000): returns iff the
\* session answers, the k-th element exists and is visible; else it raises.
ClickNth(page, conn, els, k) ==
  IF conn /\ k <= Len(els) /\ els[k] \in page.visible
    THEN [ok |-> TRUE, el |-> els[k]]
    ELSE [ok |-> FALSE, el |-> NoElement]

\* str(e) of a failed X.first.click: a .first locator never violates strictness
FirstClickError(s, conn) ==
  IF ~s.page THEN E_NOPAGE ELSE IF ~conn THEN E_CLOSED ELSE E_TIMEOUT

\* the first k (from `from` on) for which pick(k).ok, else 0
RECURSIVE FirstOk(_, _, _)
FirstOk(tries, from, upto) ==
  IF from > upto THEN 0
  ELSE IF tries[from].ok THEN from
  ELSE FirstOk(tries, from + 1, upto)

\* the outcome of trying els[1], els[2], ... in turn until one click returns
ClickEach(page, conn, els) ==
  LET tries == [k \in 1..Len(els) |-> ClickNth(page, conn, els, k)]
      hit == FirstOk(tries, 1, Len(els))
  IN  IF hit = 0 THEN [ok |-> FALSE, el |-> NoElement] ELSE tries[hit]

\* The steps of _handle_click's chain in the code's order: whether the step's
\* guard lets it run for this locator, and what its click does on this page.
ClickSteps(page, s, up, l) ==
  LET conn == Connected(s, up)
      raw == page.raw[l]
      first == ClickNth(page, conn, raw, 1)
      err == FirstClickError(s, conn)
  IN  << [step |-> "first", runs |-> TRUE, res |-> first],
         [step |-> "visible", runs |-> IsStrictViolation(err),
          res |-> ClickEach(page, conn, raw)],
         [step |-> "role", runs |-> StartsWithRole(l) /\ RoleMatch(l),
          res |-> ClickNth(page, conn, page.byRole, 1)],
         [step |-> "text", runs |-> StartsWithText(l),
          res |-> ClickNth(page, conn, page.byText, 1)],
         [step |-> "href", runs |-> MentionsHref(l) /\ HrefPattern(l),
          res |-> ClickNth(page, conn, page.byLink, 1)] >>
      \o [k \in 1..Len(LoginSelectors) |->
            [step |-> "login", runs |-> LoginHint(l),
             res |-> ClickNth(page, conn, ResolveCss(page, LoginSelectors[k]), 1)]]
      \o << [step |-> "nth", runs |-> TRUE, res |-> ClickEach(page, conn, raw)] >>

\* a chain whose selector loops go on to the next selector after a success
ReturnsOnSuccess_NotInLoops(step) == step \notin {"login", "user", "password"}

\* every step of both chains is followed by `return` when its click or fill
\* returned
ReturnsOnSuccess(step) == TRUE

\* walk the chain from step k: skip the steps whose guard is false, stop at
\* the first click that returns; `seen` lists the steps that ran
RECURSIVE WalkChain(_, _, _)
WalkChain(steps, k, seen) ==
  IF k > Len(steps) THEN [clicked |-> NoElement, trace |-> seen]
  ELSE IF ~steps[k].runs THEN WalkChain(steps, k + 1, seen)
  ELSE LET now == Append(seen, [step |-> steps[k].step, ok |-> steps[k].res.ok])
       IN  IF steps[k].res.ok /\ ReturnsOnSuccess(steps[k].step)
             THEN [clicked |-> steps[k].res.el, trace |-> now]
             ELSE WalkChain(steps, k + 1, now)

\* what _handle_click does once every step has failed: the handler of the
\* first click ends (the last try statement falls through, or its count
\* handler returns), so the call returns normally
ChainExhausted(err) == [raised |-> FALSE, error |-> None]

\* _handle_click(locator): the element clicked (NoElement when none), whether
\* the call raised, and the steps it ran
HandleClick(page, s, up, l) ==
  LET w == WalkChain(ClickSteps(page, s, up, l), 1, <<>>)
      end == IF w.clicked # NoElement
               THEN [raised |-> FALSE, error |-> None]
               ELSE ChainExhausted(FirstClickError(s, Connected(s, up)))
  IN  [raised |-> end.raised, error |-> end.error,
       clicked |-> w.clicked, trace |-> w.trace]

(***************************************************************************)
(* The page as _handle_fill sees it: the elements the raw locator resolves *)
(* to, the form-field selectors that resolve to one input, the element     *)
(* found by role, the label found by text, and the elements a fill works   *)
(* on.                                                                     *)
(***************************************************************************)
MaxFillMatches == 2      \* most elements a raw locator resolves to, for a fill

Field == <<"field", 0>>        \* the input a form-field selector resolves to
Target == <<"target", 0>>      \* the input a label's `for` attribute names

FillLocators ==
  { "#q", "#username", "#password", "#email-password", "role:textbox[name='Q']",
    "role:", "text=Email", "text:Name" }

\* "username" in locator.lower() or "login" in ... or "email" in ...
UserHint(l) == l \in {"#username", "#email-password", "text=Email"}
\* "password" in locator.lower()
PasswordHint(l) == l \in {"#password", "#email-password"}
\* locator.startswith("role:")
FillStartsWithRole(l) == l \in {"role:textbox[name='Q']", "role:"}
\* re.match(r'role:(\w+)(?:\[name=[\'"]([^\'"]+)[\'"]\])?', locator)
FillRoleMatch(l) == l \in {"role:textbox[name='Q']"}
\* locator.startswith("text=") or locator.startswith("text:")
FillStartsWithText(l) == l \in {"text=Email", "text:Name"}

\* the fixed selector lists, in the code's order (lines 1030-1036, 1046-1050)
UserSelectors ==
  << "input[name='login']", "input[name='username']", "input[name='email']",
     "input[id='login_field']", "#login_field" >>

PasswordSelectors == << "input[name='password']", "input[type='password']", "#password" >>

\* X.fill(text, timeout=3000) on a strict locator: returns iff the session
\* answers, the locator resolves to exactly one element, and it can be filled
FillStrict(page, conn, els) ==
  IF conn /\ Len(els) = 1 /\ els[1] \in page.fillable
    THEN [ok |-> TRUE, el |-> els[1]]
    ELSE [ok |-> FALSE, el |-> NoElement]

\* X.first.fill(text, timeout=3000)
FillFirst(page, conn, els) ==
  IF conn /\ Len(els) >= 1 /\ els[1] \in page.fillable
    THEN [ok |-> TRUE, el |-> els[1]]
    ELSE [ok |-> FALSE, el |-> NoElement]

\* page.locator(sel) for a form-field selector
ResolveField(page, sel) == IF sel \in page.canon THEN <<Field>> ELSE <<>>

\* lines 1072-1085: the label found by text, its `for` attribute, the fill of
\* the input it names; a label without `for` fills nothing and raises nothing
FillByLabel(page, conn) ==
  IF conn /\ page.label = "for"
    THEN FillStrict(page, conn, <<Target>>)
    ELSE [ok |-> FALSE, el |-> NoElement]

\* str(e) of the failed last step, self.page.locator(locator).first.fill
LastFillError(s, conn) ==
  IF ~s.page THEN E_NOPAGE ELSE IF ~conn THEN E_CLOSED ELSE E_TIMEOUT

\* The steps of _handle_fill's chain in the code's order
FillSteps(page, s, up, l) ==
  LET conn == Connected(s, up)
  IN  << [step |-> "direct", runs |-> TRUE, res |-> FillStrict(page, conn, page.raw)] >>
      \o [k \in 1..Len(UserSelectors) |->
            [step |-> "user", runs |-> UserHint(l),
             res |-> FillStrict(page, conn, ResolveField(page, UserSelectors[k]))]]
      \o [k \in 1..Len(PasswordSelectors) |->
            [step |-> "password", runs |-> PasswordHint(l),
             res |-> FillStrict(page, conn, ResolveField(page, PasswordSelectors[k]))]]
      \o << [step |-> "role", runs |-> FillStartsWithRole(l) /\ FillRoleMatch(l),
             res |-> FillFirst(page, conn, page.byRole)],
            [step |-> "label", runs |-> FillStartsWithText(l),
             res |-> FillByLabel(page, conn)],
            [step |-> "last", runs |-> TRUE, res |-> FillFirst(page, conn, page.raw)] >>

\* a chain whose last step is guarded like the ones before it
FillExhausted_Swallowed(error) == [raised |-> FALSE, error |-> None]

\* line 1088 stands in the handler of the first fill, in no try of its own:
\* what it raises leaves _handle_fill
FillExhausted(error) == [raised |-> TRUE, error |-> error]

\* _handle_fill(locator, text): the element filled (NoElement when none),
\* whether the call raised and with what, and the steps it ran
HandleFill(page, s, up, l) ==
  LET w == WalkChain(FillSteps(page, s, up, l), 1, <<>>)
      end == IF w.clicked # NoElement
               THEN [raised |-> FALSE, error |-> None]
               ELSE FillExhausted(LastFillError(s, Connected(s, up)))
  IN  [raised |-> end.raised, error |-> end.error,
       clicked |-> w.clicked, trace |-> w.trace]

(***************************************************************************)
(* BrowserAction and the plans handed to execute_actions.                  *)
(***************************************************************************)
ActionTypes ==
  { "navigate", "click", "fill", "wait", "submit", "press", "select", "hover",
    "screenshot", "extract" }

BrowserAction(a, locator, url, text, key, value) ==
  [action |-> a, locator |-> locator, url |-> url, text |-> text,
   time_ms |-> None, key |-> key, value |-> value]

NoAction == BrowserAction(None, None, None, None, None, None)

PlanActions ==
  { BrowserAction("navigate", None, "https://a.test", None, None, None),
    BrowserAction("click", "#missing", None, None, None, None),
    BrowserAction("click", None, None, None, None, None),
    BrowserAction("screenshot", None, None, None, None, None) }

RECURSIVE SeqsUpTo(_, _)
SeqsUpTo(S, n) ==
  IF n = 0 THEN {<<>>}
  ELSE LET shorter == SeqsUpTo(S, n - 1)
       IN  shorter \cup {Append(q, x) : q \in shorter, x \in S}

Plans == SeqsUpTo(PlanActions, MaxPlanLen)

\* Python's `not x` for an Optional[str]
Falsy(x) == x = None \/ x = ""

\* the page the executor drives: "#go" resolves to one visible element,
\* every other locator to nothing
ExecPage ==
  [raw |-> [l \in Locators |-> IF l = "#go" THEN <<Match(1)>> ELSE <<>>],
   byRole |-> <<>>, byText |-> <<>>, byLink |-> <<>>, canon |-> {},
   visible |-> {Match(1)}]

(***************************************************************************)
(* The oracle's replies to troubleshooting prompts, as the JSON object     *)
(* _parse_troubleshooting_response extracts: a key is Absent or holds a    *)
(* value; the object with no key is what every unusable reply parses to.   *)
(***************************************************************************)
Suggestion(a, locator) ==
  [action |-> a, locator |-> locator, url |-> Absent, text |-> Absent,
   time_ms |-> Absent, key |-> Absent, value |-> Absent]

EmptyObject == Suggestion(Absent, Absent)

Replies == { EmptyObject, Suggestion(Absent, "#go") }

\* what the oracle answers to the first MaxOracleReplies prompts; later
\* prompts get an unusable reply
OracleScripts == [1..MaxOracleReplies -> Replies]

\* an action built from the oracle's object alone
ImprovedAction_FromSuggestionOnly(a, fixed) ==
  LET name == IF fixed.action = Absent THEN a.action ELSE fixed.action
  IN  IF name \notin ActionTypes THEN a
      ELSE [k \in DOMAIN a |->
              IF k = "action" THEN name ELSE IF fixed[k] = Absent THEN None ELSE fixed[k]]

\* troubleshoot_action, lines 644-665: the failed action with the keys the
\* oracle's object holds replaced; an unknown action name keeps the original
ImprovedAction(a, fixed) ==
  LET get(k) == IF fixed[k] = Absent THEN a[k] ELSE fixed[k]
  IN  IF get("action") \notin ActionTypes THEN a
      ELSE [k \in DOMAIN a |-> get(k)]

\* troubleshoot_action(action, error_message): the action to retry with, the
\* session it leaves, and whether the oracle was asked.  Nothing it raises
\* escapes: every failure returns the original action.
TroubleshootAction(a, s, u, reply, stopFail, startFail) ==
  IF ~s.page \/ ~s.browser
    THEN [action |-> a, s |-> s, up |-> u, asked |-> FALSE, leaked |-> {}]
  ELSE IF ~u
    THEN LET r == Recreate(s, u, stopFail, startFail)
         IN  [action |-> a, s |-> r.s, up |-> r.s.page /\ r.up, asked |-> FALSE,
              leaked |-> r.leaked]
  ELSE IF reply = EmptyObject
    THEN [action |-> a, s |-> s, up |-> u, asked |-> TRUE, leaked |-> {}]
  ELSE [action |-> ImprovedAction(a, reply), s |-> s, up |-> u, asked |-> TRUE,
        leaked |-> {}]

\* an awaited page primitive (goto, fill, select_option, hover, press,
\* screenshot, evaluate on a locator): raises without a page or on a dead
\* session, else the page decides
PageOp(s, u, opOk) ==
  IF ~s.page THEN E_NOPAGE
  ELSE IF ~u THEN E_CLOSED
  ELSE IF opOk THEN "ok" ELSE E_TIMEOUT

\* the dispatch of one attempt, lines 750-812: "ok" when the branch reaches
\* its break, else str(e) of what it raised
Dispatch(a, s, u, opOk) ==
  CASE a.action = "navigate" ->
         IF Falsy(a.url) THEN E_VALUE ELSE PageOp(s, u, opOk)
    [] a.action = "click" ->
         IF Falsy(a.locator) THEN E_VALUE
         ELSE LET c == HandleClick(ExecPage, s, u, a.locator)
              IN  IF c.raised THEN c.error ELSE "ok"
    [] a.action = "fill" ->
         IF Falsy(a.locator) \/ a.text = None THEN E_VALUE ELSE PageOp(s, u, opOk)
    [] a.action = "wait" -> "ok"
    [] a.action = "submit" ->
         IF Falsy(a.locator) THEN E_VALUE ELSE PageOp(s, u, opOk)
    [] a.action = "press" ->
         IF Falsy(a.key) THEN E_VALUE ELSE PageOp(s, u, opOk)
    [] a.action = "select" ->
         IF Falsy(a.locator) \/ Falsy(a.value) THEN E_VALUE ELSE PageOp(s, u, opOk)
    [] a.action = "hover" ->
         IF Falsy(a.locator) THEN E_VALUE ELSE PageOp(s, u, opOk)
    [] a.action = "screenshot" -> PageOp(s, u, opOk)
    [] a.action = "extract" -> "ok"

\* a loop test that lets one more pass through
LoopAgain_OneMore(r) == r <= max_retries + 1
\* while retries <= max_retries
LoopAgain(r) == r <= max_retries
\* a bound test that lets one more repair through
BudgetSpent_OffByOne(r) == r > max_retries

\* if retries >= max_retries: raise
BudgetSpent(r) == r >= max_retries
\* retries += 1 after the session was recreated (line 835)
AfterReconnect(r) == r + 1
\* retries += 1 after troubleshoot_action (line 848)
AfterRepair(r) == r + 1

(***************************************************************************)
(* Exceptions: the classes the code's handlers tell apart, each with the   *)
(* classes it derives from (pydantic's ValidationError is a ValueError).   *)
(***************************************************************************)
ExceptionBases ==
  [ ValueError |-> {"ValueError", "Exception"},
    ValidationError |-> {"ValidationError", "ValueError", "Exception"},
    KeyError |-> {"KeyError", "Exception"},
    AttributeError |-> {"AttributeError", "Exception"},
    TypeError |-> {"TypeError", "Exception"},
    PlaywrightError |-> {"PlaywrightError", "Exception"},
    OracleError |-> {"OracleError", "Exception"} ]

\* `except <handled>`: whether a handler for the classes `handled` catches cls
Catches(handled, cls) == ExceptionBases[cls] \cap handled # {}

NoException == [cls |-> None, msg |-> None]

\* the class of the exception whose str(e) is msg: the ValueError of a missing
\* parameter, the AttributeError of a call on self.page = None, else an
\* error raised by the browser driver
ErrClass(msg) ==
  CASE msg = "required for action" -> "ValueError"
    [] msg = "'NoneType' object has no attribute" -> "AttributeError"
    [] OTHER -> "PlaywrightError"

\* an outer handler of execute_actions that names the driver's errors only
ExecHandler_DriverErrorsOnly == {"PlaywrightError"}
\* except Exception as e, line 864
ExecHandler == {"Exception"}

(***************************************************************************)
(* translate_command: the oracle's replies and their parsing.              *)
(***************************************************************************)
MaxEntries == 2          \* longest array the oracle replies with

\* A url is its text cut in segments, the first one its first four
\* characters.  The text the oracle returns for the navigation prompt: the
\* url itself, bare or wrapped in quotes and whitespace, with or without a
\* scheme.
UrlReplies ==
  { [pad |-> FALSE, quote |-> "", body |-> << "http", "s://", "a.test" >>],
    [pad |-> TRUE, quote |-> "`", body |-> << "a.te", "st" >>],
    [pad |-> FALSE, quote |-> "'", body |-> << "http", "://", "a.test" >>],
    [pad |-> FALSE, quote |-> "", body |-> << "http", "bin.org" >>] }

\* the text of a url
RECURSIVE Join(_)
Join(segs) == IF segs = <<>> THEN "" ELSE Head(segs) \o Join(Tail(segs))

\* url.startswith("http")
StartsWithHttp(segs) == segs # <<>> /\ Head(segs) = "http"

\* url_response.strip().strip('"\'`').strip(), then the https:// prefix
\* unless the text starts with "http" (lines 441-445)
CleanUrl(reply) ==
  IF StartsWithHttp(reply.body)
    THEN reply.body
    ELSE << "http", "s://" >> \o reply.body

\* JSON values.  An entry of the oracle's array: an object holding some of
\* the keys of an action, or a value that is not an object.
Entry(json, a, locator, time_ms) ==
  [json |-> json, action |-> a, locator |-> locator, time_ms |-> time_ms]

Entries ==
  { Entry("object", "click", "#go", Absent),
    Entry("object", "fill", "#q", Absent),
    Entry("object", "navigate", Absent, Absent),
    Entry("object", "tap", "#go", Absent),         \* unknown action name
    Entry("object", Absent, "#go", Absent),        \* missing action
    Entry("object", "wait", Absent, "soon"),       \* badly typed field
    Entry("string", Absent, Absent, Absent) }      \* not an object

JsonValue(json, items) == [json |-> json, items |-> items]
Garbage == JsonValue("garbage", <<>>)   \* text json.loads rejects

\* what the reply holds: an array of entries, one action object on its own,
\* the empty object, a number, or no JSON at all
Payloads ==
  { JsonValue("array", q) : q \in SeqsUpTo(Entries, MaxEntries) }
    \cup { JsonValue("object", <<e>>) : e \in {Entry("object", "click", "#go", Absent)} }
    \cup { JsonValue("object", <<>>), JsonValue("number", <<>>), Garbage }

\* how the reply carries it: in a ``` fence, bare, or inside sentences
ActionReplies ==
  { [form |-> f, payload |-> p] : f \in {"fenced", "bare", "prose"}, p \in Payloads }

NoReply == [form |-> "none", payload |-> Garbage]
OracleRaises == [form |-> "raises", payload |-> Garbage]

\* _parse_llm_response, lines 548-557: the string handed to json.loads: the
\* inside of the fence, else the span from the first "[" to the last "]",
\* else the whole reply
JsonStr(reply) ==
  IF reply.form = "fenced" THEN reply.payload
  ELSE IF reply.payload.json = "array" THEN reply.payload
  ELSE IF reply.form = "bare" THEN reply.payload
  ELSE Garbage

\* json.loads: raises JSONDecodeError on text that is not JSON
JsonLoads(x) ==
  IF x = Garbage THEN [ok |-> FALSE, value |-> Garbage] ELSE [ok |-> TRUE, value |-> x]

\* _parse_llm_response, lines 559-566: the parsed value, [] when json.loads raised
ParseLlmResponse(reply) ==
  LET r == JsonLoads(JsonStr(reply))
  IN  IF r.ok THEN r.value ELSE JsonValue("array", <<>>)

\* `for action_data in parsed_actions`: what the loop iterates over, or the
\* exception the iteration raises; iterating a dict yields its keys (strings)
Iterate(v) ==
  CASE v.json = "array" -> [raised |-> None, items |-> v.items]
    [] v.json = "object" ->
         [raised |-> None,
          items |-> [k \in 1..Len(v.items) |-> Entry("string", Absent, Absent, Absent)]]
    [] OTHER -> [raised |-> "TypeError", items |-> <<>>]

\* if action_type == ActionType.NAVIGATE: continue
SkipsNavigate_Never(a) == FALSE
SkipsNavigate(a) == a = "navigate"

\* lines 496-512 for one entry: the action appended, a skip, or the class of
\* the exception raised
ConvertEntry(e) ==
  IF e.json # "object" THEN [out |-> "raise", cls |-> "AttributeError", action |-> NoAction]
  ELSE IF e.action \notin ActionTypes
    THEN [out |-> "raise", cls |-> "ValueError", action |-> NoAction]
  ELSE IF SkipsNavigate(e.action) THEN [out |-> "skip", cls |-> None, action |-> NoAction]
  ELSE IF e.time_ms \notin {Absent, None}
    THEN [out |-> "raise", cls |-> "ValidationError", action |-> NoAction]
  ELSE [out |-> "append", cls |-> None,
        action |-> BrowserAction(e.action,
                                 IF e.locator = Absent THEN None ELSE e.locator,
                                 None, None, None, None)]

\* except (ValueError, KeyError) around one entry, line 514
EntryHandler == {"ValueError", "KeyError"}

\* the loop of lines 493-515 from entry k on: the actions collected, and the
\* class of the exception that left the loop (None: the loop ended)
RECURSIVE ConvertEntries(_, _, _)
ConvertEntries(items, k, acc) ==
  IF k > Len(items) THEN [raised |-> None, actions |-> acc]
  ELSE LET c == ConvertEntry(items[k])
       IN  IF c.out = "append" THEN ConvertEntries(items, k + 1, Append(acc, c.action))
           ELSE IF c.out = "skip" THEN ConvertEntries(items, k + 1, acc)
           ELSE IF Catches(EntryHandler, c.cls) THEN ConvertEntries(items, k + 1, acc)
           ELSE [raised |-> c.cls, actions |-> acc]

\* CommandResponse(...)
CommandResponse(actions, status, message) ==
  [actions |-> actions, status |-> status, message |-> message]
NoResponse == CommandResponse(<<>>, "none", None)

\* lines 518-524
ReadyResponse(actions) ==
  CommandResponse(actions, "ready", "Command translated successfully with HTML-based actions")
\* lines 530-536
ErrorResponse(msg) ==
  CommandResponse(<<>>, "error", "Error during translation: " \o msg)

\* except Exception as e, line 526
OuterHandler == {"Exception"}

\* navigate_to_url(url), lines 391-414: the session it leaves and the bool it
\* returns; whatever raises inside is caught and gives False
NavigateToUrl(s, u, startFail, stopFail, restartFail, gotoOk) ==
  LET st == IF ~s.page \/ ~s.browser
              THEN StartBrowser(s, u, startFail)
              ELSE [s |-> s, up |-> u, ok |-> TRUE, leaked |-> {}]
  IN  IF ~st.ok THEN [s |-> st.s, up |-> st.up, ok |-> FALSE, leaked |-> st.leaked]
      ELSE IF st.s.page /\ ~st.up
        THEN LET r == Recreate(st.s, st.up, stopFail, restartFail)
             IN  [s |-> r.s, up |-> r.up,
                  ok |-> r.raised = None /\ PageOp(r.s, r.up, gotoOk) = "ok",
                  leaked |-> st.leaked \cup r.leaked]
      ELSE [s |-> st.s, up |-> st.up, ok |-> PageOp(st.s, st.up, gotoOk) = "ok",
            leaked |-> st.leaked]

\* if not navigation_success: raise ValueError(...), lines 459-460
NavigationGate_Ignored(ok) == TRUE
NavigationGate(ok) == ok

\* get_current_page_html(), lines 370-380, and the test of line 466: whether
\* page markup was obtained
GotHtml(s, u, contentOk) == s.page /\ PageOp(s, u, contentOk) = "ok"

(***************************************************************************)
(* _create_html_based_action_prompt: page markup as a sequence of pieces,  *)
(* each a run of text or whitespace or one element with its content.  A    *)
(* piece has a kind, a length in characters, the number of "{" and "}" it  *)
(* holds (at its start), and for a main section the length of the form     *)
(* nested in it (0: none).                                                 *)
(***************************************************************************)
MaxPieces == 3           \* most pieces of a page's markup
max_html_length == 15000 \* max_html_length = 15000
MarkerLen == 15          \* len("... [truncated]")

Piece(kind, len, braces, form) ==
  [kind |-> kind, len |-> len, braces |-> braces, form |-> form]

Pieces ==
  { Piece("text", 10, 0, 0), Piece("text", 10, 2, 0), Piece("text", 14990, 0, 0),
    Piece("ws", 1, 0, 0), Piece("ws", 2, 0, 0),
    Piece("script", 40, 2, 0), Piece("style", 30, 2, 0), Piece("comment", 12, 0, 0),
    Piece("meta", 20, 0, 0), Piece("link", 25, 0, 0), Piece("svg", 60, 0, 0),
    Piece("dataattr", 11, 0, 0), Piece("hidden", 30, 0, 0), Piece("footer", 50, 0, 0),
    Piece("form", 100, 0, 0), Piece("form", 15010, 0, 0),
    Piece("main", 200, 0, 100), Piece("article", 300, 0, 0) }

Markups == SeqsUpTo(Pieces, MaxPieces)

Marker == Piece("marker", MarkerLen, 0, 0)

\* len(html_content)
RECURSIVE TotalLen(_)
TotalLen(h) == IF h = <<>> THEN 0 ELSE Head(h).len + TotalLen(Tail(h))

\* re.sub(<pattern of an element kind>, '', html_content)
RemoveKinds(h, kinds) == SelectSeq(h, LAMBDA p : p.kind \notin kinds)

\* re.sub(r'\s{2,}', ' ', html_content): every maximal run of two or more
\* whitespace characters becomes one blank; `run` is the length of the run
\* of whitespace that ends before h
RECURSIVE CollapseFrom(_, _)
CollapseFrom(h, run) ==
  LET flush == IF run = 0 THEN <<>> ELSE << Piece("ws", 1, 0, 0) >>
  IN  IF h = <<>> THEN flush
      ELSE IF Head(h).kind = "ws" THEN CollapseFrom(Tail(h), run + Head(h).len)
      ELSE flush \o << Head(h) >> \o CollapseFrom(Tail(h), 0)

Collapse(h) == CollapseFrom(h, 0)

\* steps 1-8, lines 240-262, remove these in turn
StrippedKinds ==
  {"script", "style", "comment", "meta", "link", "svg", "dataattr", "hidden"}

\* lines 240-268: steps 1-8, then the whitespace collapse (9), then the
\* footer removal (10)
Sanitize(h) == RemoveKinds(Collapse(RemoveKinds(h, StrippedKinds)), {"footer"})

\* re.findall of the form pattern: the form sections in document order, the
\* form nested in a main section included
RECURSIVE FormsOf(_)
FormsOf(h) ==
  IF h = <<>> THEN <<>>
  ELSE LET p == Head(h)
           own == IF p.kind = "form" THEN << p >>
                  ELSE IF p.form > 0 THEN << Piece("form", p.form, 0, 0) >>
                  ELSE <<>>
       IN  own \o FormsOf(Tail(h))

KindOf(h, kind) == SelectSeq(h, LAMBDA p : p.kind = kind)

\* important_parts in an order that puts main content first
Sections_MainFirst(h) == KindOf(h, "main") \o FormsOf(h) \o KindOf(h, "article")

\* important_parts, lines 281-299: forms, then main, then article sections
Sections(h) == FormsOf(h) \o KindOf(h, "main") \o KindOf(h, "article")

\* html_content[:n]: the pieces up to n characters, the last one cut
RECURSIVE Prefix(_, _)
Prefix(h, n) ==
  IF h = <<>> \/ n = 0 THEN <<>>
  ELSE LET p == Head(h)
       IN  IF p.len <= n THEN << p >> \o Prefix(Tail(h), n - p.len)
           ELSE << Piece(p.kind, n, IF p.braces < n THEN p.braces ELSE n, 0) >>

\* html_content[:max_html_length] + "... [truncated]", line 308
Truncated(h) == Prefix(h, max_html_length) \o << Marker >>

\* lines 276-309
CapContent(h) ==
  IF TotalLen(h) <= max_html_length THEN h
  ELSE LET parts == Sections(h)
           c == IF parts # <<>> THEN parts ELSE h
       IN  IF TotalLen(c) > max_html_length THEN Truncated(c) ELSE c

\* html_content.replace("{", "{{").replace("}", "}}"), line 312; the value is
\* then interpolated into the prompt as it is
EscapeBraces(h) ==
  [k \in 1..Len(h) |-> Piece(h[k].kind, h[k].len + h[k].braces, 2 * h[k].braces, h[k].form)]

(***************************************************************************)
(* troubleshoot_action and _parse_troubleshooting_response on the oracle's *)
(* raw reply.  A JSON value is its kind, its truth value in Python, and    *)
(* the objects written in its text: the object itself, or the objects an   *)
(* array holds.                                                            *)
(***************************************************************************)
TsValue(json, truthy, objs) == [json |-> json, truthy |-> truthy, objs |-> objs]

TsObject(o) == TsValue("object", o # EmptyObject, << o >>)

TsGarbage == TsValue("garbage", FALSE, <<>>)   \* text json.loads rejects

Fixes == { Suggestion(Absent, "#go"), Suggestion("hover", "#go"), Suggestion("dance", "#go") }

TsPayloads ==
  { TsObject(o) : o \in Fixes \cup {EmptyObject} }
    \cup { TsValue("number", t, <<>>) : t \in BOOLEAN }       \* 7, 0
    \cup { TsValue("string", t, <<>>) : t \in BOOLEAN }       \* "x", ""
    \cup { TsValue("null", FALSE, <<>>), TsGarbage }
    \cup { TsValue("array", FALSE, <<>>), TsValue("array", TRUE, <<>>) }   \* [], [1]
    \cup { TsValue("array", TRUE, << o >>) : o \in Fixes \cup {EmptyObject} }
    \cup { TsValue("array", TRUE, << Suggestion(Absent, "#go"), Suggestion(Absent, "#go") >>) }

\* how the reply carries the value: in a ``` fence, bare, or inside sentences
TsReplies ==
  { [form |-> f, payload |-> p] : f \in {"fenced", "bare", "prose"}, p \in TsPayloads }

TsOracleRaises == [form |-> "raises", payload |-> TsGarbage]

\* lines 578-587: the inside of the fence, else the span from the first "{"
\* to the last "}", else the whole reply
TsJsonStr(reply) ==
  IF reply.form = "fenced" THEN reply.payload
  ELSE IF Len(reply.payload.objs) = 1 THEN TsObject(reply.payload.objs[1])
  ELSE IF Len(reply.payload.objs) > 1 THEN TsGarbage
  ELSE IF reply.form = "bare" THEN reply.payload
  ELSE TsGarbage

\* _parse_troubleshooting_response, lines 589-596: json.loads of that string,
\* {} when it raises JSONDecodeError
ParseTroubleshootingResponse(reply) ==
  LET x == TsJsonStr(reply)
  IN  IF x = TsGarbage THEN TsObject(EmptyObject) ELSE x

\* an outer handler of troubleshoot_action that names what the construction
\* of the action raises
TroubleshootHandler_AsInner == {"ValueError", "KeyError"}

\* line 667: except Exception
TroubleshootHandler == {"Exception"}

\* lines 632-669: the oracle's reply to the action returned, or the class of
\* the exception that leaves troubleshoot_action
Troubleshot(a, reply) ==
  LET returns(x) == [action |-> x, raised |-> None]
      escapes(cls) == IF Catches(TroubleshootHandler, cls) THEN returns(a)
                      ELSE [action |-> a, raised |-> cls]
      fixed == ParseTroubleshootingResponse(reply)
  IN  IF reply.form = "raises" THEN escapes("OracleError")
      ELSE IF ~fixed.truthy THEN returns(a)
      ELSE IF fixed.json # "object" THEN escapes("AttributeError")
      ELSE returns(ImprovedAction(a, fixed.objs[1]))

(***************************************************************************)
(* State.                                                                  *)
(***************************************************************************)
VARIABLES
  session,       \* the four handles of the service
  up,            \* whether the held page answers (the browser is connected)
  pc,            \* where execute_actions stands
  plan,          \* the list `actions` handed to execute_actions
  oracle,        \* the replies the oracle gives to its first prompts, in order
  asked,         \* how many prompts the oracle has answered
  i,             \* the for loop's position, 1-based; 0 before the loop
  action,        \* the loop variable `action`
  retries,       \* the local `retries`
  err,           \* str(e) of the exception being handled
  result,        \* the ExecutionResult
  attempts,      \* history: attempts made of the current action
  status,        \* history: each plan action's state
  repairs,       \* history: troubleshoot_action calls for the current action
  lastLogicErr,  \* history: message of the last failure seen on a live session
  abortCause,    \* history: what raised into the outer handler
  clickPage,     \* _handle_click alone: the page
  clickLocator,  \* _handle_click alone: the locator
  clickSession,  \* _handle_click alone: the session's handles
  clickUp,       \* _handle_click alone: whether the page answers
  clickPc,       \* _handle_click alone: "idle", "call" or "returned"
  clickResult,   \* _handle_click alone: what the call did
  trPc,          \* translate_command: where the call stands
  trUrl,         \* translate_command: the local `url`
  trCalls,       \* history: oracle calls made by translate_command
  trNavOk,       \* translate_command: navigation_success ("unset" before step 2)
  trHtmlReply,   \* history: the oracle's reply to the action-extraction prompt
  trErr,         \* translate_command: the exception being handled
  trResponse,    \* translate_command: the CommandResponse returned
  trLog,         \* translate_command: its oracle calls and page operations so far, in order
  svcCalls,      \* start_browser/stop_browser alone: calls made so far
  svcOp,         \* history: the last call, "start" or "stop" ("none" before)
  svcOk,         \* history: whether the last call returned (FALSE: it raised)
  svcBefore,     \* history: the handles before the last call
  svcCloses,     \* history: close()/stop() calls the last stop_browser made
  svcPrev,       \* history: the call before the last one and whether it returned
  svcLeaked,     \* history: handles assigned while they still held a resource
  rqPc,          \* router: where each /command request stands
  activeServices,\* router: the keys of the dict active_services
  dbStatus,      \* router: status of each request's command_executions document
  executionResults, \* router: the dict execution_results
  history,       \* router: request ids of the execution_history documents
  rtLast,        \* history: the last router step and whether it returned
  rqPoll,        \* router: per request, the status queries made and the last answer
  htmlPc,        \* prompt building: where _create_html_based_action_prompt stands
  htmlRaw,       \* prompt building: the page markup handed in
  htmlClean,     \* prompt building: html_content after the sanitization steps
  htmlAgain,     \* prompt building: the sanitization steps applied to htmlClean
  htmlCapped,    \* prompt building: html_content after the length cap
  htmlEscaped,   \* prompt building: html_content as embedded in the prompt
  tsPc,          \* troubleshoot_action alone: "idle", "call" or "returned"
  tsReply,       \* troubleshoot_action alone: the oracle's reply
  tsResult,      \* troubleshoot_action alone: what the call did
  fillIn,        \* _handle_fill alone: the page, locator and session of the call
  fillPc,        \* _handle_fill alone: "idle", "call" or "returned"
  fillResult,    \* _handle_fill alone: what the call did
  coPc,          \* concurrent start_browser: where each coroutine's call stands
  coOwner,       \* concurrent start_browser: whose handle each attribute holds
  coLaunched     \* concurrent start_browser: the handles created, with their creator

execVars == << session, up, pc, plan, oracle, asked, i, action, retries, err, result,
               attempts, status, repairs, lastLogicErr, abortCause >>
clickVars == << clickPage, clickLocator, clickSession, clickUp, clickPc, clickResult >>
trVars == << trPc, trUrl, trCalls, trNavOk, trHtmlReply, trErr, trResponse, trLog >>
svcVars == << svcCalls, svcOp, svcOk, svcBefore, svcCloses, svcPrev, svcLeaked >>
rtVars == << rqPc, activeServices, dbStatus, executionResults, history, rtLast, rqPoll >>
htmlVars == << htmlPc, htmlRaw, htmlClean, htmlAgain, htmlCapped, htmlEscaped >>
tsVars == << tsPc, tsReply, tsResult >>
fillVars == << fillIn, fillPc, fillResult >>
coVars == << coPc, coOwner, coLaunched >>
restVars == << rtVars, htmlVars, tsVars, fillVars, coVars >>
vars == << session, up, pc, plan, oracle, asked, i, action, retries, err, result,
           attempts, status, repairs, lastLogicErr, abortCause,
           clickPage, clickLocator, clickSession, clickUp, clickPc, clickResult,
           trPc, trUrl, trCalls, trNavOk, trHtmlReply, trErr, trResponse, trLog,
           svcCalls, svcOp, svcOk, svcBefore, svcCloses, svcPrev, svcLeaked,
           rqPc, activeServices, dbStatus, executionResults, history, rtLast, rqPoll,
           htmlPc, htmlRaw, htmlClean, htmlAgain, htmlCapped, htmlEscaped,
           tsPc, tsReply, tsResult,
           fillIn, fillPc, fillResult,
           coPc, coOwner, coLaunched >>

NoResult == [raised |-> FALSE, error |-> None, clicked |-> NoElement, trace |-> <<>>]

\* result = ExecutionResult(success=True, message=..., ...), lines 713-718
NewResult ==
  [success |-> TRUE, message |-> "Actions executed successfully",
   screenshot |-> None, error |-> None]

ClickIdle ==
  /\ clickPage = ExecPage
  /\ clickLocator = None
  /\ clickSession = NoSession
  /\ clickUp = FALSE
  /\ clickPc = "idle"
  /\ clickResult = NoResult

MaxRequests == 2         \* /command requests in flight
Requests == 1..MaxRequests

\* no status query of a request was made
NoPoll == [polls |-> 0, answer |-> "none", finished |-> FALSE]

\* the router has served no request
RtIdle ==
  /\ rqPc = [r \in Requests |-> "idle"]
  /\ activeServices = {}
  /\ dbStatus = [r \in Requests |-> "none"]
  /\ executionResults = [r \in Requests |-> "none"]
  /\ history = <<>>
  /\ rtLast = [op |-> "none", ok |-> TRUE]
  /\ rqPoll = [r \in Requests |-> NoPoll]

\* _create_html_based_action_prompt is not running
HtmlIdle ==
  /\ htmlPc = "idle"
  /\ htmlRaw = <<>>
  /\ htmlClean = <<>>
  /\ htmlAgain = <<>>
  /\ htmlCapped = <<>>
  /\ htmlEscaped = <<>>

NoTsResult == [action |-> NoAction, raised |-> FALSE, asked |-> FALSE]

\* troubleshoot_action on its own is not running
TsIdle ==
  /\ tsPc = "idle"
  /\ tsReply = NoReply
  /\ tsResult = NoTsResult

MaxCoroutines == 2       \* coroutines that call start_browser at once

\* no concurrent start_browser calls are followed
CoIdle ==
  /\ coPc = [c \in 1..MaxCoroutines |-> "idle"]
  /\ coOwner = [h \in {"playwright", "browser", "context", "page"} |-> 0]
  /\ coLaunched = {}

\* _handle_fill on its own is not running
FillIdle ==
  /\ fillIn = [page |-> [raw |-> <<>>, canon |-> {}, byRole |-> <<>>, label |-> "none",
                         fillable |-> {}],
               locator |-> None, s |-> NoSession, up |-> FALSE]
  /\ fillPc = "idle"
  /\ fillResult = NoResult

\* no call of start_browser or stop_browser on its own was made
SvcIdle ==
  /\ svcCalls = 0
  /\ svcOp = "none"
  /\ svcOk = TRUE
  /\ svcBefore = NoSession
  /\ svcCloses = 0
  /\ svcPrev = [op |-> "none", ok |-> TRUE]
  /\ svcLeaked = {}

\* translate_command is not running
TrIdle ==
  /\ trPc = "idle"
  /\ trUrl = <<>>
  /\ trCalls = 0
  /\ trNavOk = "unset"
  /\ trHtmlReply = NoReply
  /\ trErr = NoException
  /\ trResponse = NoResponse
  /\ trLog = <<>>

Init ==
  /\ session \in {NoSession, LiveSession}
  /\ up = session.page
  /\ pc = "begin"
  /\ plan \in Plans
  /\ oracle \in OracleScripts
  /\ asked = 0
  /\ i = 0
  /\ action = NoAction
  /\ retries = 0
  /\ err = None
  /\ result = NewResult
  /\ attempts = 0
  /\ status = [k \in 1..Len(plan) |-> "pending"]
  /\ repairs = 0
  /\ lastLogicErr = None
  /\ abortCause = None
  /\ ClickIdle
  /\ TrIdle
  /\ SvcIdle
  /\ RtIdle
  /\ HtmlIdle
  /\ TsIdle
  /\ FillIdle
  /\ CoIdle

(***************************************************************************)
(* execute_actions.                                                        *)
(***************************************************************************)
\* a final capture whose failure is reported as the run's error
FinalScreenshot_Surfaces(res, s, u, shotOk) ==
  IF s.page /\ PageOp(s, u, shotOk) = "ok"
    THEN [res EXCEPT !.screenshot = "png"]
    ELSE IF s.page
      THEN [res EXCEPT !.success = FALSE, !.error = PageOp(s, u, shotOk)]
      ELSE res

\* page.screenshot() at the end of the run, lines 857-862 and 871-876: the
\* screenshot the result holds afterwards; a failed capture changes nothing
FinalScreenshot(res, s, u, shotOk) ==
  IF s.page /\ PageOp(s, u, shotOk) = "ok"
    THEN [res EXCEPT !.screenshot = "png"]
    ELSE res

\* an outer handler that forgets result.success = False
FailResult_KeepsSuccess(res, msg) ==
  [res EXCEPT !.message = "Error executing actions", !.error = msg]

\* an outer handler that forgets result.error = str(e)
FailResult_NoError(res, msg) ==
  [res EXCEPT !.success = FALSE, !.message = "Error executing actions"]

\* the outer handler, lines 864-868
FailResult(res, msg) ==
  [res EXCEPT !.success = FALSE, !.message = "Error executing actions", !.error = msg]

\* lines 720-724: start a session when none is held
ExecBegin ==
  /\ pc = "begin"
  /\ \E startFail \in FailChoices(~session.page \/ ~session.browser) :
       LET st == IF ~session.page \/ ~session.browser
                   THEN StartBrowser(session, up, startFail)
                   ELSE [s |-> session, up |-> up, ok |-> TRUE, leaked |-> {}]
       IN  /\ session' = st.s
           /\ up' = st.up
           /\ IF st.ok
                THEN /\ pc' = "probe"
                     /\ UNCHANGED << err, abortCause >>
                ELSE /\ pc' = "except"
                     /\ err' = E_START
                     /\ abortCause' = "session"
  /\ UNCHANGED << plan, oracle, asked, i, action, retries, result, attempts, status, repairs,
                  lastLogicErr, clickVars, trVars, svcVars, restVars >>

\* lines 726-734: the probe before the batch; a dead session is recreated
ExecProbe ==
  /\ pc = "probe"
  /\ IF ~session.page \/ up
       THEN /\ pc' = "for"
            /\ UNCHANGED << session, up, err, abortCause >>
       ELSE \E stopFail \in FailPoints, startFail \in FailPoints :
              LET r == Recreate(session, up, stopFail, startFail)
              IN  /\ session' = r.s
                  /\ up' = r.up
                  /\ IF r.raised = None
                       THEN /\ pc' = "for"
                            /\ UNCHANGED << err, abortCause >>
                       ELSE /\ pc' = "except"
                            /\ err' = r.raised
                            /\ abortCause' = "session"
  /\ UNCHANGED << plan, oracle, asked, i, action, retries, result, attempts, status, repairs,
                  lastLogicErr, clickVars, trVars, svcVars, restVars >>

\* lines 736-741: the for loop takes the next action, or ends; `at` are the
\* places of the loop body from which the loop moves on
ForNextFrom(at) ==
  /\ pc \in at
  /\ IF i < Len(plan)
       THEN /\ i' = i + 1
            /\ action' = plan[i + 1]
            /\ retries' = 0
            /\ status' = [status EXCEPT ![i + 1] = "executing"]
            /\ attempts' = 0
            /\ repairs' = 0
            /\ pc' = "attempt"
       ELSE /\ pc' = "final"
            /\ UNCHANGED << i, action, retries, status, attempts, repairs >>
  /\ UNCHANGED << session, up, plan, oracle, asked, err, result, lastLogicErr, abortCause,
                  clickVars, trVars, svcVars, restVars >>

\* a loop that does not await the previous action's retry loop
ForNext_NoAwait == ForNextFrom({"for", "handler", "repair"})

\* the loop moves on only when the while loop of the previous action ended
ForNext == ForNextFrom({"for"})

\* lines 743-812: one pass of the while body's try block
Attempt ==
  /\ pc = "attempt"
  /\ \E startFail \in FailChoices(~session.page \/ ~session.browser), opOk \in BOOLEAN :
       LET st == IF ~session.page \/ ~session.browser
                   THEN StartBrowser(session, up, startFail)
                   ELSE [s |-> session, up |-> up, ok |-> TRUE, leaked |-> {}]
           out == IF st.ok THEN Dispatch(action, st.s, st.up, opOk) ELSE E_START
       IN  /\ session' = st.s
           /\ up' = st.up
           /\ attempts' = attempts + 1
           /\ IF out = "ok"
                THEN /\ pc' = "for"
                     /\ status' = [status EXCEPT ![i] = "succeeded"]
                     /\ result' = IF action.action = "screenshot"
                                    THEN [result EXCEPT !.screenshot = "png"]
                                    ELSE result
                     /\ UNCHANGED err
                ELSE /\ pc' = "handler"
                     /\ err' = out
                     /\ UNCHANGED << status, result >>
  /\ UNCHANGED << plan, oracle, asked, i, action, retries, repairs, lastLogicErr,
                  abortCause, clickVars, trVars, svcVars, restVars >>

\* lines 814-840: the handler of a failed attempt, up to the repair call
Handler ==
  /\ pc = "handler"
  /\ IF ~Connected(session, up)
       THEN \E stopFail \in FailPoints, startFail \in FailPoints :
              LET r == Recreate(session, up, stopFail, startFail)
              IN  /\ session' = r.s
                  /\ up' = r.up
                  /\ UNCHANGED lastLogicErr
                  /\ IF r.raised = None
                       THEN /\ retries' = AfterReconnect(retries)
                            /\ err' = None
                            /\ UNCHANGED abortCause
                            /\ IF LoopAgain(AfterReconnect(retries))
                                 THEN /\ pc' = "attempt"
                                      /\ UNCHANGED status
                                 ELSE /\ pc' = "for"
                                      /\ status' = [status EXCEPT ![i] = "exhausted"]
                       ELSE /\ pc' = "except"
                            /\ err' = r.raised
                            /\ abortCause' = "session"
                            /\ status' = [status EXCEPT ![i] = "failed"]
                            /\ UNCHANGED retries
       ELSE /\ lastLogicErr' = err
            /\ UNCHANGED << session, up, retries, err >>
            /\ IF BudgetSpent(retries)
                 THEN /\ pc' = "except"
                      /\ abortCause' = "logic"
                      /\ status' = [status EXCEPT ![i] = "failed"]
                 ELSE /\ pc' = "repair"
                      /\ UNCHANGED << abortCause, status >>
  /\ UNCHANGED << plan, oracle, asked, i, action, result, attempts, repairs, clickVars, trVars, svcVars, restVars >>

\* a repair that stores the improved action in the caller's list
PlanAfterRepair_InPlace(p, k, improved) == [p EXCEPT ![k] = improved]

\* line 847, action = improved_action: the loop's local name is rebound, the
\* list `actions` keeps its element
PlanAfterRepair(p, k, improved) == p

\* lines 842-851: troubleshoot_action, then the next pass of the while loop
Repair ==
  /\ pc = "repair"
  /\ \E stopFail \in FailChoices(~up), startFail \in FailChoices(~up) :
       LET reply == IF asked < Len(oracle) THEN oracle[asked + 1] ELSE EmptyObject
           t == TroubleshootAction(action, session, up, reply, stopFail, startFail)
       IN  /\ action' = t.action
           /\ plan' = PlanAfterRepair(plan, i, t.action)
           /\ session' = t.s
           /\ up' = t.up
           /\ asked' = IF t.asked THEN asked + 1 ELSE asked
  /\ repairs' = repairs + 1
  /\ retries' = AfterRepair(retries)
  /\ IF LoopAgain(AfterRepair(retries))
       THEN /\ pc' = "attempt"
            /\ UNCHANGED status
       ELSE /\ pc' = "for"
            /\ status' = [status EXCEPT ![i] = "exhausted"]
  /\ err' = None
  /\ UNCHANGED << oracle, i, result, attempts, lastLogicErr, abortCause,
                  clickVars, trVars, svcVars, restVars >>

\* lines 856-862 and 878: the final screenshot, then return result
FinalShot ==
  /\ pc = "final"
  /\ \E shotOk \in BOOLEAN :
       result' = FinalScreenshot(result, session, up, shotOk)
  /\ pc' = "done"
  /\ UNCHANGED << session, up, plan, oracle, asked, i, action, retries, err, attempts, status,
                  repairs, lastLogicErr, abortCause, clickVars, trVars, svcVars, restVars >>

\* lines 864-878: the outer handler, its screenshot, then return result; an
\* exception the handler does not catch leaves execute_actions
ErrorExit ==
  /\ pc = "except"
  /\ IF Catches(ExecHandler, ErrClass(err))
       THEN /\ \E shotOk \in BOOLEAN :
                 result' = FinalScreenshot(FailResult(result, err), session, up, shotOk)
            /\ pc' = "done"
       ELSE /\ pc' = "raised"
            /\ UNCHANGED result
  /\ UNCHANGED << session, up, plan, oracle, asked, i, action, retries, err, attempts, status,
                  repairs, lastLogicErr, abortCause, clickVars, trVars, svcVars, restVars >>

\* the environment: the browser behind a held page dies
Disconnect ==
  /\ pc \notin {"idle", "done", "raised"}
  /\ session.page
  /\ up
  /\ up' = FALSE
  /\ UNCHANGED << session, pc, plan, oracle, asked, i, action, retries, err, result, attempts,
                  status, repairs, lastLogicErr, abortCause, clickVars, trVars, svcVars, restVars >>

Next ==
  \/ ExecBegin
  \/ ExecProbe
  \/ ForNext
  \/ Attempt
  \/ Handler
  \/ Repair
  \/ FinalShot
  \/ ErrorExit
  \/ Disconnect

Spec == Init /\ [][Next]_vars

\* a step of the coroutine execute_actions (every disjunct of Next but the
\* environment's): the event loop resumes an awaiting coroutine, so a step
\* that stays enabled is eventually taken
ExecStep ==
  \/ ExecBegin
  \/ ExecProbe
  \/ ForNext
  \/ Attempt
  \/ Handler
  \/ Repair
  \/ FinalShot
  \/ ErrorExit

FairSpec == Spec /\ WF_vars(ExecStep)

(***************************************************************************)
(* _handle_click on its own: every locator form, on every page within the  *)
(* bounds, with the session up, dead or absent.                            *)
(***************************************************************************)
\* the first n elements the raw locator resolves to, in document order
Matches(n) == [k \in 1..n |-> Match(k)]

\* the canonical selectors a page can answer: none, any one, or all
CanonChoices ==
  {{}} \cup {{LoginSelectors[k]} : k \in 1..Len(LoginSelectors)}
       \cup {{LoginSelectors[k] : k \in 1..Len(LoginSelectors)}}

\* the pages that differ for a call with locator l: only the queries the
\* chain can make for l resolve to something
ClickPages(l) ==
  { [raw |-> [x \in Locators |-> IF x = l THEN Matches(n) ELSE <<>>],
     byRole |-> IF StartsWithRole(l) THEN alt ELSE <<>>,
     byText |-> IF StartsWithText(l) THEN alt ELSE <<>>,
     byLink |-> IF MentionsHref(l) THEN alt ELSE <<>>,
     canon |-> canon,
     visible |-> vis] :
    n \in 0..MaxMatches, alt \in {<<>>, <<Other>>},
    canon \in (IF LoginHint(l) THEN CanonChoices ELSE {{}}),
    vis \in SUBSET Elements }

\* execute_actions is not running
ExecRest ==
  /\ pc = "idle"
  /\ plan = <<>>
  /\ oracle = [k \in 1..MaxOracleReplies |-> EmptyObject]
  /\ asked = 0
  /\ i = 0
  /\ action = NoAction
  /\ retries = 0
  /\ err = None
  /\ result = NewResult
  /\ attempts = 0
  /\ status = <<>>
  /\ repairs = 0
  /\ lastLogicErr = None
  /\ abortCause = None

ExecIdle ==
  /\ session = NoSession
  /\ up = FALSE
  /\ ExecRest

InitClick ==
  /\ ExecIdle
  /\ TrIdle
  /\ SvcIdle
  /\ RtIdle
  /\ HtmlIdle
  /\ TsIdle
  /\ FillIdle
  /\ CoIdle
  /\ clickLocator \in Locators
  /\ clickPage \in ClickPages(clickLocator)
  /\ clickSession \in {NoSession, LiveSession}
  /\ clickUp \in {u \in BOOLEAN : u => clickSession.page}
  /\ clickPc = "call"
  /\ clickResult = NoResult

\* await self._handle_click(locator)
ClickCall ==
  /\ clickPc = "call"
  /\ clickResult' = HandleClick(clickPage, clickSession, clickUp, clickLocator)
  /\ clickPc' = "returned"
  /\ UNCHANGED << execVars, trVars, svcVars, restVars, clickPage, clickLocator, clickSession, clickUp >>

NextClick == ClickCall

SpecClick == InitClick /\ [][NextClick]_vars

(***************************************************************************)
(* _handle_fill on its own: one call, for every page and locator within    *)
(* the bounds, with the session up, dead or absent.                        *)
(***************************************************************************)
\* the form-field selectors a page can answer: none, or one of either list
FieldChoices ==
  { {}, {UserSelectors[1]}, {UserSelectors[3]}, {PasswordSelectors[1]},
    {PasswordSelectors[3]}, {UserSelectors[3], PasswordSelectors[1]} }

\* the pages that differ for a call with locator l
FillPages(l) ==
  { [raw |-> Matches(n),
     canon |-> canon,
     byRole |-> IF FillStartsWithRole(l) THEN alt ELSE <<>>,
     label |-> label,
     fillable |-> can] :
    n \in 0..MaxFillMatches, alt \in {<<>>, <<Other>>},
    canon \in (IF UserHint(l) \/ PasswordHint(l) THEN FieldChoices ELSE {{}}),
    label \in (IF FillStartsWithText(l) THEN {"none", "nofor", "for"} ELSE {"none"}),
    can \in SUBSET ({Match(k) : k \in 1..MaxFillMatches} \cup {Field, Other, Target}) }

InitFill ==
  /\ ExecIdle
  /\ ClickIdle
  /\ TrIdle
  /\ SvcIdle
  /\ RtIdle
  /\ HtmlIdle
  /\ TsIdle
  /\ CoIdle
  /\ \E l \in FillLocators, s \in {NoSession, LiveSession} :
       \E page \in FillPages(l), u \in {b \in BOOLEAN : b => s.page} :
         fillIn = [page |-> page, locator |-> l, s |-> s, up |-> u]
  /\ fillPc = "call"
  /\ fillResult = NoResult

\* await self._handle_fill(locator, text)
FillCall ==
  /\ fillPc = "call"
  /\ fillResult' = HandleFill(fillIn.page, fillIn.s, fillIn.up, fillIn.locator)
  /\ fillPc' = "returned"
  /\ UNCHANGED << execVars, clickVars, trVars, svcVars, rtVars, htmlVars, tsVars, coVars, fillIn >>

NextFill == FillCall

SpecFill == InitFill /\ [][NextFill]_vars

\* one call of either handler
InitHandlers == InitClick \/ InitFill

NextHandlers ==
  \/ ClickCall
  \/ FillCall

SpecHandlers == InitHandlers /\ [][NextHandlers]_vars

(***************************************************************************)
(* translate_command on its own: every oracle reply within the bounds, on  *)
(* a service with no session, a live one, or the driver alone (what a      *)
(* start that failed at launch leaves).                                    *)
(***************************************************************************)
DriverOnly == [NoSession EXCEPT !.playwright = TRUE]

InitTranslate ==
  /\ session \in {NoSession, LiveSession, DriverOnly}
  /\ up \in {u \in BOOLEAN : u => session.page}
  /\ ExecRest
  /\ ClickIdle
  /\ SvcIdle
  /\ RtIdle
  /\ HtmlIdle
  /\ TsIdle
  /\ FillIdle
  /\ CoIdle
  /\ trPc = "url"
  /\ trUrl = <<>>
  /\ trCalls = 0
  /\ trNavOk = "unset"
  /\ trHtmlReply = NoReply
  /\ trErr = NoException
  /\ trResponse = NoResponse
  /\ trLog = <<>>

\* one entry of the call's log
Event(op, ok) == [op |-> op, ok |-> ok]

\* a translator that asks for the url again when the oracle call raised
AfterUrlCallRaised_Retry == "url"

\* lines 435-438 stand in the outer try with no loop around them: what the
\* oracle call raises goes to the handler of line 526
AfterUrlCallRaised == "except"

\* lines 429-453: the navigation prompt's oracle call and the url clean-up
TrExtractUrl ==
  /\ trPc = "url"
  /\ trCalls' = trCalls + 1
  /\ \E reply \in UrlReplies \cup {OracleRaises} :
       /\ trLog' = Append(trLog, Event("url_call", reply # OracleRaises))
       /\ IF reply = OracleRaises
            THEN /\ trPc' = AfterUrlCallRaised
                 /\ trErr' = [cls |-> "OracleError", msg |-> "oracle call failed"]
                 /\ UNCHANGED trUrl
            ELSE /\ trPc' = "navigate"
                 /\ trUrl' = CleanUrl(reply)
                 /\ UNCHANGED trErr
  /\ UNCHANGED << execVars, clickVars, svcVars, restVars, trNavOk, trHtmlReply, trResponse >>

\* lines 455-460: navigate_to_url and the test of its result
TrNavigate ==
  /\ trPc = "navigate"
  /\ \E startFail \in FailChoices(~session.page \/ ~session.browser),
        stopFail \in FailChoices(session.page /\ ~up),
        restartFail \in FailChoices(session.page /\ ~up),
        gotoOk \in BOOLEAN :
       LET nav == NavigateToUrl(session, up, startFail, stopFail, restartFail, gotoOk)
       IN  /\ session' = nav.s
           /\ up' = nav.up
           /\ trNavOk' = IF nav.ok THEN "ok" ELSE "failed"
           /\ trLog' = Append(trLog, Event("navigate", nav.ok))
           /\ IF NavigationGate(nav.ok)
                THEN /\ trPc' = "html"
                     /\ UNCHANGED trErr
                ELSE /\ trPc' = "except"
                     /\ trErr' = [cls |-> "ValueError", msg |-> "Failed to navigate to " \o Join(trUrl)]
  /\ UNCHANGED << pc, plan, oracle, asked, i, action, retries, err, result, attempts, status,
                  repairs, lastLogicErr, abortCause, clickVars, svcVars, restVars,
                  trUrl, trCalls, trHtmlReply, trResponse >>

\* lines 462-467: the page markup
TrGetHtml ==
  /\ trPc = "html"
  /\ \E contentOk \in BOOLEAN :
       /\ trLog' = Append(trLog, Event("content", GotHtml(session, up, contentOk)))
       /\ IF GotHtml(session, up, contentOk)
            THEN /\ trPc' = "actions"
                 /\ UNCHANGED trErr
            ELSE /\ trPc' = "except"
                 /\ trErr' = [cls |-> "ValueError", msg |-> "Failed to get HTML content"]
  /\ UNCHANGED << execVars, clickVars, svcVars, restVars, trUrl, trCalls, trNavOk, trHtmlReply, trResponse >>

\* lines 469-524: the action-extraction oracle call, the parse, the
\* validation loop and the ready response
TrActions ==
  /\ trPc = "actions"
  /\ trCalls' = trCalls + 1
  /\ \E reply \in ActionReplies \cup {OracleRaises} :
       /\ trHtmlReply' = reply
       /\ trLog' = Append(trLog, Event("actions_call", reply # OracleRaises))
       /\ IF reply = OracleRaises
            THEN /\ trPc' = "except"
                 /\ trErr' = [cls |-> "OracleError", msg |-> "oracle call failed"]
                 /\ UNCHANGED trResponse
            ELSE LET it == Iterate(ParseLlmResponse(reply))
                     conv == ConvertEntries(it.items, 1, <<>>)
                     raised == IF it.raised # None THEN it.raised ELSE conv.raised
                 IN  IF raised # None
                       THEN /\ trPc' = "except"
                            /\ trErr' = [cls |-> raised, msg |-> "bad action data"]
                            /\ UNCHANGED trResponse
                       ELSE /\ trPc' = "returned"
                            /\ trResponse' = ReadyResponse(conv.actions)
                            /\ UNCHANGED trErr
  /\ UNCHANGED << execVars, clickVars, svcVars, restVars, trUrl, trNavOk >>

\* lines 526-536: the outer handler; an exception it does not catch leaves
\* translate_command
TrExcept ==
  /\ trPc = "except"
  /\ IF Catches(OuterHandler, trErr.cls)
       THEN /\ trPc' = "returned"
            /\ trResponse' = ErrorResponse(trErr.msg)
       ELSE /\ trPc' = "raised"
            /\ UNCHANGED trResponse
  /\ UNCHANGED << execVars, clickVars, svcVars, restVars, trUrl, trCalls, trNavOk, trHtmlReply, trErr,
                  trLog >>

\* the environment: the browser behind the held page dies during the call
TrDisconnect ==
  /\ trPc \in {"navigate", "html"}
  /\ session.page
  /\ up
  /\ up' = FALSE
  /\ UNCHANGED << session, pc, plan, oracle, asked, i, action, retries, err, result, attempts,
                  status, repairs, lastLogicErr, abortCause, clickVars, trVars, svcVars, restVars >>

NextTranslate ==
  \/ TrExtractUrl
  \/ TrNavigate
  \/ TrGetHtml
  \/ TrActions
  \/ TrExcept
  \/ TrDisconnect

SpecTranslate == InitTranslate /\ [][NextTranslate]_vars

(***************************************************************************)
(* start_browser and stop_browser on their own: any sequence of calls on   *)
(* a fresh service, each awaited step of a call free to raise.             *)
(***************************************************************************)
MaxCalls == 4            \* longest sequence of start_browser/stop_browser calls

\* 0: no step raises; k: the k-th of the call's awaited steps raises
SessionFailPoints == 0..SessionSteps

InitSession ==
  /\ ExecIdle
  /\ ClickIdle
  /\ TrIdle
  /\ SvcIdle
  /\ RtIdle
  /\ HtmlIdle
  /\ TsIdle
  /\ FillIdle
  /\ CoIdle

\* await self.start_browser()
StartCall ==
  /\ pc = "idle"
  /\ svcCalls < MaxCalls
  /\ \E failAt \in (IF session.playwright THEN {0} ELSE SessionFailPoints) :
       LET r == StartBrowser(session, up, failAt)
       IN  /\ session' = r.s
           /\ up' = r.up
           /\ svcOk' = r.ok
           /\ svcLeaked' = svcLeaked \cup r.leaked
  /\ svcCalls' = svcCalls + 1
  /\ svcOp' = "start"
  /\ svcBefore' = session
  /\ svcCloses' = 0
  /\ svcPrev' = [op |-> svcOp, ok |-> svcOk]
  /\ UNCHANGED << pc, plan, oracle, asked, i, action, retries, err, result, attempts, status,
                  repairs, lastLogicErr, abortCause, clickVars, trVars, restVars >>

\* await self.stop_browser()
StopCall ==
  /\ pc = "idle"
  /\ svcCalls < MaxCalls
  /\ \E failAt \in SessionFailPoints :
       LET r == StopBrowser(session, failAt)
       IN  /\ session' = r.s
           /\ up' = (r.s.page /\ up)
           /\ svcOk' = r.ok
           /\ svcCloses' = r.closes
  /\ svcCalls' = svcCalls + 1
  /\ svcOp' = "stop"
  /\ svcBefore' = session
  /\ svcPrev' = [op |-> svcOp, ok |-> svcOk]
  /\ UNCHANGED svcLeaked
  /\ UNCHANGED << pc, plan, oracle, asked, i, action, retries, err, result, attempts, status,
                  repairs, lastLogicErr, abortCause, clickVars, trVars, restVars >>

\* await self.navigate_to_url(url), which returns a bool and never raises
NavigateCall ==
  /\ pc = "idle"
  /\ svcCalls < MaxCalls
  /\ \E startFail \in (IF session.playwright THEN {0} ELSE SessionFailPoints),
        stopFail \in (IF session.page /\ ~up THEN SessionFailPoints ELSE {0}),
        restartFail \in (IF session.page /\ ~up THEN SessionFailPoints ELSE {0}),
        gotoOk \in BOOLEAN :
       LET r == NavigateToUrl(session, up, startFail, stopFail, restartFail, gotoOk)
       IN  /\ session' = r.s
           /\ up' = r.up
           /\ svcLeaked' = svcLeaked \cup r.leaked
  /\ svcCalls' = svcCalls + 1
  /\ svcOp' = "navigate"
  /\ svcOk' = TRUE
  /\ svcBefore' = session
  /\ svcCloses' = 0
  /\ svcPrev' = [op |-> svcOp, ok |-> svcOk]
  /\ UNCHANGED << pc, plan, oracle, asked, i, action, retries, err, result, attempts, status,
                  repairs, lastLogicErr, abortCause, clickVars, trVars, restVars >>

\* await self.troubleshoot_action(action, error_message), which never raises
TroubleshootCall ==
  /\ pc = "idle"
  /\ svcCalls < MaxCalls
  /\ \E stopFail \in (IF session.page /\ ~up THEN SessionFailPoints ELSE {0}),
        startFail \in (IF session.page /\ ~up THEN SessionFailPoints ELSE {0}) :
       LET r == TroubleshootAction(action, session, up, EmptyObject, stopFail, startFail)
       IN  /\ session' = r.s
           /\ up' = r.up
           /\ svcLeaked' = svcLeaked \cup r.leaked
  /\ svcCalls' = svcCalls + 1
  /\ svcOp' = "troubleshoot"
  /\ svcOk' = TRUE
  /\ svcBefore' = session
  /\ svcCloses' = 0
  /\ svcPrev' = [op |-> svcOp, ok |-> svcOk]
  /\ UNCHANGED << pc, plan, oracle, asked, i, action, retries, err, result, attempts, status,
                  repairs, lastLogicErr, abortCause, clickVars, trVars, restVars >>

\* the environment: the browser behind the held page dies between two calls
SvcDisconnect ==
  /\ pc = "idle"
  /\ svcCalls < MaxCalls
  /\ session.page
  /\ up
  /\ up' = FALSE
  /\ UNCHANGED << session, pc, plan, oracle, asked, i, action, retries, err, result, attempts,
                  status, repairs, lastLogicErr, abortCause, clickVars, trVars, svcVars, restVars >>

NextSession ==
  \/ StartCall
  \/ StopCall
  \/ NavigateCall
  \/ TroubleshootCall
  \/ SvcDisconnect

SpecSession == InitSession /\ [][NextSession]_vars

(***************************************************************************)
(* The router (routers/v1/glitch_agent.py): /command requests served by    *)
(* the one module-level service instance, their background executions,     *)
(* and /stop-browser.  A request's coroutine is split where it awaits the  *)
(* browser, the places where the event loop runs other coroutines.         *)
(***************************************************************************)
InitRouter ==
  /\ ExecIdle
  /\ ClickIdle
  /\ TrIdle
  /\ SvcIdle
  /\ HtmlIdle
  /\ TsIdle
  /\ FillIdle
  /\ CoIdle
  /\ rqPc = [r \in Requests |-> "new"]
  /\ activeServices = {}
  /\ dbStatus = [r \in Requests |-> "none"]
  /\ executionResults = [r \in Requests |-> "none"]
  /\ history = <<>>
  /\ rtLast = [op |-> "none", ok |-> TRUE]
  /\ rqPoll = [r \in Requests |-> NoPoll]

RouterFrame ==
  UNCHANGED << pc, plan, oracle, asked, i, action, retries, err, result, attempts, status,
               repairs, lastLogicErr, abortCause, clickVars, trVars, svcVars, htmlVars,
               tsVars, fillVars, coVars >>

\* process_command, lines 151-156: translate_command of the shared instance
\* is entered and runs up to its first await of the browser
RqTranslateStart(r) ==
  /\ rqPc[r] = "new"
  /\ rqPc' = [rqPc EXCEPT ![r] = "translating"]
  /\ rtLast' = [op |-> "translate", ok |-> TRUE]
  /\ UNCHANGED << session, up, activeServices, dbStatus, executionResults, history, rqPoll >>
  /\ RouterFrame

\* process_command, lines 156-186: translate_command navigates the shared
\* page and returns its plan; without actions the request is refused, else
\* the pending document is stored and the background task is queued
RqTranslateEnd(r) ==
  /\ rqPc[r] = "translating"
  /\ \E startFail \in FailChoices(~session.page \/ ~session.browser),
        stopFail \in FailChoices(session.page /\ ~up),
        restartFail \in FailChoices(session.page /\ ~up),
        gotoOk \in BOOLEAN, someActions \in BOOLEAN, insertOk \in BOOLEAN :
       LET nav == NavigateToUrl(session, up, startFail, stopFail, restartFail, gotoOk)
           accepted == nav.ok /\ someActions /\ insertOk
       IN  /\ session' = nav.s
           /\ up' = nav.up
           /\ rqPc' = [rqPc EXCEPT ![r] = IF accepted THEN "queued" ELSE "refused"]
           /\ dbStatus' = IF accepted THEN [dbStatus EXCEPT ![r] = "pending"] ELSE dbStatus
           /\ rtLast' = [op |-> "command", ok |-> accepted]
  /\ UNCHANGED << activeServices, executionResults, history, rqPoll >>
  /\ RouterFrame

\* execute_actions_background, lines 57-65: the task registers the shared
\* instance under its service id and enters execute_actions, which starts a
\* session when none is held
RqExecStart(r) ==
  /\ rqPc[r] = "queued"
  /\ activeServices' = activeServices \cup {r}
  /\ \E startFail \in FailChoices(~session.page \/ ~session.browser) :
       LET st == IF ~session.page \/ ~session.browser
                   THEN StartBrowser(session, up, startFail)
                   ELSE [s |-> session, up |-> up, ok |-> TRUE, leaked |-> {}]
       IN  /\ session' = st.s
           /\ up' = st.up
  /\ rqPc' = [rqPc EXCEPT ![r] = "executing"]
  /\ rtLast' = [op |-> "execute", ok |-> TRUE]
  /\ UNCHANGED << dbStatus, executionResults, history, rqPoll >>
  /\ RouterFrame

\* which of the task's database writes raise: none, the status update of
\* line 71, the history insert of line 86, or the status update and the
\* handler's update of line 98 as well
DbFaults == {"none", "update", "insert", "both"}

\* lines 71-110: the status the command's document holds when the task ends
StoredStatus(before, success, fault) ==
  CASE fault = "none" -> IF success THEN "completed" ELSE "failed"
    [] fault = "both" -> before
    [] OTHER -> "failed"

\* execute_actions_background, lines 65-110: execute_actions returns; the
\* result, the document's status and the history record are stored; a write
\* that raises takes the task to its handler
RqExecEnd(r) ==
  /\ rqPc[r] = "executing"
  /\ \E success \in BOOLEAN, fault \in DbFaults :
       /\ executionResults' =
            [executionResults EXCEPT ![r] = IF success THEN "success" ELSE "failure"]
       /\ dbStatus' = [dbStatus EXCEPT ![r] = StoredStatus(dbStatus[r], success, fault)]
       /\ history' = IF fault = "none" THEN Append(history, r) ELSE history
       /\ rtLast' = [op |-> "executed", ok |-> fault # "both"]
  /\ rqPc' = [rqPc EXCEPT ![r] = "finished"]
  /\ UNCHANGED << session, up, activeServices, rqPoll >>
  /\ RouterFrame

MaxPolls == 2            \* status queries a client makes before it gives up

\* an answer from the document alone
QueryAnswer_FromDocument(inMemory, stored) ==
  IF stored = "pending" THEN "in_progress" ELSE "failure"

\* get_execution_result, lines 193-222: the result in memory when there is
\* one, else "Execution is still in progress" for a pending document, else
\* what the document holds
QueryAnswer(inMemory, stored) ==
  IF inMemory # "none" THEN inMemory
  ELSE IF stored = "none" THEN "not_found"
  ELSE IF stored = "pending" THEN "in_progress"
  ELSE IF stored = "completed" THEN "success" ELSE "failure"

\* GET /execution/{request_id} for an accepted command, as wait_for_execution
\* polls it: at most MaxPolls times
Query(r) ==
  /\ rqPc[r] \in {"queued", "executing", "finished"}
  /\ rqPoll[r].polls < MaxPolls
  /\ rqPoll' = [rqPoll EXCEPT ![r] =
                  [polls |-> @.polls + 1,
                   answer |-> QueryAnswer(executionResults[r], dbStatus[r]),
                   finished |-> rqPc[r] = "finished"]]
  /\ rtLast' = [op |-> "query", ok |-> TRUE]
  /\ UNCHANGED << session, up, rqPc, activeServices, dbStatus, executionResults, history >>
  /\ RouterFrame

\* POST /stop-browser, lines 263-274: stop_browser of every registered
\* service (each key holds the shared instance), then the dict is cleared;
\* a stop_browser that raises ends the request with an error
StopAll ==
  /\ \E failAt \in FailChoices(activeServices # {}) :
       LET r == IF activeServices # {}
                  THEN StopBrowser(session, failAt)
                  ELSE [s |-> session, ok |-> TRUE, closes |-> 0]
       IN  /\ session' = r.s
           /\ up' = (r.s.page /\ up)
           /\ activeServices' = IF r.ok THEN {} ELSE activeServices
           /\ rtLast' = [op |-> "stopAll", ok |-> r.ok]
  /\ UNCHANGED << rqPc, dbStatus, executionResults, history, rqPoll >>
  /\ RouterFrame

NextRouter ==
  \/ \E r \in Requests : RqTranslateStart(r)
  \/ \E r \in Requests : RqTranslateEnd(r)
  \/ \E r \in Requests : RqExecStart(r)
  \/ \E r \in Requests : RqExecEnd(r)
  \/ \E r \in Requests : Query(r)
  \/ StopAll

SpecRouter == InitRouter /\ [][NextRouter]_vars

\* a queued background task is run, and execute_actions returns
FairSpecRouter ==
  /\ SpecRouter
  /\ \A r \in Requests : WF_vars(RqExecStart(r)) /\ WF_vars(RqExecEnd(r))

(***************************************************************************)
(* start_browser called by several coroutines on the one shared instance:  *)
(* a coroutine runs from one await to the next, and the others run in      *)
(* between.                                                                *)
(***************************************************************************)
Coroutines == 1..MaxCoroutines

Handles == <<"playwright", "browser", "context", "page">>

\* the instance's four attributes, each None (0) or the handle that the
\* named coroutine's call created
NoHandles == [h \in {Handles[k] : k \in 1..Len(Handles)} |-> 0]

InitCoStart ==
  /\ ExecIdle
  /\ ClickIdle
  /\ TrIdle
  /\ SvcIdle
  /\ RtIdle
  /\ HtmlIdle
  /\ TsIdle
  /\ FillIdle
  /\ coPc = [c \in Coroutines |-> "call"]
  /\ coOwner = NoHandles
  /\ coLaunched = {}

CoFrame ==
  UNCHANGED << execVars, clickVars, trVars, svcVars, rtVars, htmlVars, tsVars, fillVars >>

\* line 49: if self.playwright is None
CoCheck(c) ==
  /\ coPc[c] = "call"
  /\ coPc' = [coPc EXCEPT ![c] = IF coOwner.playwright = 0 THEN "step1" ELSE "returned"]
  /\ UNCHANGED << coOwner, coLaunched >>
  /\ CoFrame

\* lines 50, 65, 74, 75: the k-th awaited creation returns and its handle is
\* assigned to the attribute, or it raises
CoCreate(c, k) ==
  /\ coPc[c] = "step" \o ToString(k)
  /\ \E ok \in BOOLEAN :
       IF ok
         THEN /\ coOwner' = [coOwner EXCEPT ![Handles[k]] = c]
              /\ coLaunched' = coLaunched \cup {<<Handles[k], c>>}
              /\ coPc' = [coPc EXCEPT ![c] = IF k = Len(Handles) THEN "returned"
                                             ELSE "step" \o ToString(k + 1)]
         ELSE /\ coPc' = [coPc EXCEPT ![c] = "raised"]
              /\ UNCHANGED << coOwner, coLaunched >>
  /\ CoFrame

NextCoStart ==
  \/ \E c \in Coroutines : CoCheck(c)
  \/ \E c \in Coroutines, k \in 1..Len(Handles) : CoCreate(c, k)

SpecCoStart == InitCoStart /\ [][NextCoStart]_vars

(***************************************************************************)
(* _create_html_based_action_prompt on its own, for every markup within    *)
(* the bounds.                                                             *)
(***************************************************************************)
InitPrompt ==
  /\ ExecIdle
  /\ ClickIdle
  /\ TrIdle
  /\ SvcIdle
  /\ RtIdle
  /\ TsIdle
  /\ FillIdle
  /\ CoIdle
  /\ htmlPc = "raw"
  /\ htmlRaw \in Markups
  /\ htmlClean = <<>>
  /\ htmlAgain = <<>>
  /\ htmlCapped = <<>>
  /\ htmlEscaped = <<>>

PromptFrame ==
  UNCHANGED << execVars, clickVars, trVars, svcVars, rtVars, tsVars, fillVars, coVars, htmlRaw >>

\* lines 238-268
PromptSanitize ==
  /\ htmlPc = "raw"
  /\ htmlClean' = Sanitize(htmlRaw)
  /\ htmlPc' = "clean"
  /\ UNCHANGED << htmlAgain, htmlCapped, htmlEscaped >>
  /\ PromptFrame

\* lines 238-268 once more, on markup that is already sanitized
PromptSanitizeAgain ==
  /\ htmlPc = "clean"
  /\ htmlAgain' = Sanitize(htmlClean)
  /\ htmlPc' = "again"
  /\ UNCHANGED << htmlClean, htmlCapped, htmlEscaped >>
  /\ PromptFrame

\* lines 275-309
PromptCap ==
  /\ htmlPc = "clean"
  /\ htmlCapped' = CapContent(htmlClean)
  /\ htmlPc' = "capped"
  /\ UNCHANGED << htmlClean, htmlAgain, htmlEscaped >>
  /\ PromptFrame

\* lines 311-329
PromptEscape ==
  /\ htmlPc = "capped"
  /\ htmlEscaped' = EscapeBraces(htmlCapped)
  /\ htmlPc' = "escaped"
  /\ UNCHANGED << htmlClean, htmlAgain, htmlCapped >>
  /\ PromptFrame

NextPrompt ==
  \/ PromptSanitize
  \/ PromptSanitizeAgain
  \/ PromptCap
  \/ PromptEscape

SpecPrompt == InitPrompt /\ [][NextPrompt]_vars

(***************************************************************************)
(* troubleshoot_action on its own: one call on a failed action, with every *)
(* raw reply of the oracle within the bounds.                              *)
(***************************************************************************)
InitTroubleshoot ==
  /\ session \in {NoSession, LiveSession}
  /\ up = session.page
  /\ pc = "idle"
  /\ plan = <<>>
  /\ oracle = [k \in 1..MaxOracleReplies |-> EmptyObject]
  /\ asked = 0
  /\ i = 0
  /\ action \in PlanActions
  /\ retries = 0
  /\ err = None
  /\ result = NewResult
  /\ attempts = 0
  /\ status = <<>>
  /\ repairs = 0
  /\ lastLogicErr = None
  /\ abortCause = None
  /\ ClickIdle
  /\ TrIdle
  /\ SvcIdle
  /\ RtIdle
  /\ HtmlIdle
  /\ FillIdle
  /\ CoIdle
  /\ tsPc = "call"
  /\ tsReply \in TsReplies \cup {TsOracleRaises}
  /\ tsResult = NoTsResult

TsFrame ==
  UNCHANGED << pc, plan, oracle, asked, i, action, retries, err, result, attempts, status,
               repairs, lastLogicErr, abortCause, clickVars, trVars, svcVars, rtVars,
               htmlVars, fillVars, coVars, tsReply >>

\* the browser dies before the call
TsDisconnect ==
  /\ tsPc = "call"
  /\ up
  /\ up' = FALSE
  /\ UNCHANGED << session, tsPc, tsResult >>
  /\ TsFrame

\* improved_action = await self.troubleshoot_action(action, error_message)
TsCall ==
  /\ tsPc = "call"
  /\ \E stopFail \in (IF session.page /\ ~up THEN FailPoints ELSE {0}),
        startFail \in (IF session.page /\ ~up THEN FailPoints ELSE {0}) :
       LET t == TroubleshootAction(action, session, up, EmptyObject, stopFail, startFail)
           r == Troubleshot(action, tsReply)
       IN  /\ session' = t.s
           /\ up' = t.up
           /\ tsResult' = IF t.asked
                            THEN [action |-> r.action, raised |-> r.raised # None, asked |-> TRUE]
                            ELSE [action |-> t.action, raised |-> FALSE, asked |-> FALSE]
  /\ tsPc' = "returned"
  /\ TsFrame

NextTroubleshoot ==
  \/ TsDisconnect
  \/ TsCall

SpecTroubleshoot == InitTroubleshoot /\ [][NextTroubleshoot]_vars

(***************************************************************************)
(* Properties of execute_actions (checked under Spec).                     *)
(***************************************************************************)
Looping == pc \in {"attempt", "handler", "repair"}
Terminal == {"succeeded", "exhausted", "failed"}

\* C1: actions are attempted strictly in input order: while action i is being
\* attempted every earlier action is in a terminal state and no later action
\* has been started; an action whose while loop ended is terminal.
C1_StrictOrder ==
  \A k \in 1..Len(plan) :
    /\ k < i => status[k] \in Terminal
    /\ k > i => status[k] = "pending"
    /\ (k = i /\ Looping) => status[k] = "executing"
    /\ (k = i /\ pc = "for") => status[k] \in Terminal

\* C1 witness: the second action is being retried after the first succeeded
C1_Witness ==
  /\ pc = "attempt"
  /\ i = 2
  /\ attempts >= 1
  /\ status[1] = "succeeded"

\* C2 (as claimed): a result with success = true means every action of the
\* plan reached Succeeded.
C2_SuccessMeansAllSucceeded ==
  (pc = "done" /\ result.success) =>
    \A k \in 1..Len(plan) : status[k] = "succeeded"

\* C3 (as claimed): connectivity failures do not consume the repair budget:
\* the retry counter of the action being executed counts its repairs only.
C3_CounterCountsRepairsOnly == Looping => retries = repairs

\* C4 (as claimed): after a failed attempt finds the session disconnected and
\* the session was recreated, the same action is attempted again.
C4_RetriedAfterReconnect ==
  [][ (pc = "handler" /\ ~Connected(session, up) /\ pc' # "except")
        => (pc' = "attempt" /\ i' = i /\ Connected(session', up')) ]_vars

\* C5: no action gets more than 2 troubleshoot_action calls, and every action
\* starts its first attempt with the counter at 0.
C5_RepairBound ==
  /\ repairs <= 2
  /\ (pc = "attempt" /\ attempts = 0) => retries = 0

\* C5 witness: the second action of a plan has had its two repairs
C5_Witness ==
  /\ i = 2
  /\ repairs = 2
  /\ pc = "attempt"

\* C6: a logic failure with the counter at the bound aborts the plan: the
\* handler raises, the outer handler returns success = false, and no attempt
\* is made afterwards.
C6_AbortAtBound ==
  [][ /\ (pc = "handler" /\ Connected(session, up) /\ retries >= 2 /\ pc' # pc)
          => (pc' = "except" /\ attempts' = attempts /\ i' = i)
      /\ pc = "except"
          => /\ pc' \in {"except", "done"}
             /\ pc' = "done" => ~result'.success
             /\ attempts' = attempts /\ i' = i
      /\ pc = "done" => FALSE ]_vars

\* C6 witness: a plan aborted by a logic failure on an action's third attempt
C6_Witness ==
  /\ pc = "done"
  /\ abortCause = "logic"
  /\ attempts = 3
  /\ ~result.success

\* C7 (as claimed): a failed result's error is the last logic failure's message.
C7_ErrorIsLastLogicFailure ==
  (pc = "done" /\ ~result.success) =>
    (result.error # None /\ result.error = lastLogicErr)

\* C7 (amended): a failed result's error is populated with the message of
\* what aborted the plan: the last logic failure's message when a logic
\* failure at the retry bound aborted it, the stop or start failure's message
\* when recreating or starting the session raised.
C7_ErrorIsAbortMessage ==
  (pc = "done" /\ ~result.success) =>
    /\ result.error # None
    /\ \/ abortCause = "logic" /\ result.error = lastLogicErr
             /\ lastLogicErr \notin SessionErrors
       \/ abortCause = "session" /\ result.error \in SessionErrors

\* C7 witness: a plan aborted by a session failure after an earlier logic failure
C7_Witness ==
  /\ pc = "done"
  /\ ~result.success
  /\ abortCause = "session"
  /\ lastLogicErr # None
  /\ result.error = E_START

\* C8 (as claimed): a click whose locator is not found at its first two
\* attempts and whose second oracle suggestion is found ends with
\* success = true, a screenshot and exactly 2 repair attempts.
C8_ClickRepairedTwice ==
  ( /\ pc = "done"
    /\ Len(plan) = 1
    /\ plan[1].action = "click"
    /\ ~Falsy(plan[1].locator)
    /\ ExecPage.raw[plan[1].locator] = <<>>
    /\ oracle[1] = EmptyObject
    /\ oracle[2].locator \in Locators
    /\ ExecPage.raw[oracle[2].locator] # <<>>
    /\ ExecPage.raw[oracle[2].locator][1] \in ExecPage.visible
    /\ abortCause = None
    /\ Connected(session, up) )
  => (result.success /\ result.screenshot # None /\ repairs = 2)

\* C16: execute_actions never raises: whatever fails (session start, session
\* teardown, an action, the oracle, a screenshot), the call ends by returning
\* an ExecutionResult whose success flag tells whether something aborted it.
C16_NeverRaises ==
  /\ pc # "raised"
  /\ pc = "done" =>
       /\ result.success \in BOOLEAN
       /\ result.success = (abortCause = None)
       /\ result.message \in {"Actions executed successfully", "Error executing actions"}

\* C16 witness: the call returned a result after session teardown failed
\* while recreating the session and the error screenshot failed as well
C16_Witness ==
  /\ pc = "done"
  /\ err = E_STOP
  /\ session.page
  /\ result.screenshot = None
  /\ ~result.success

\* C17: every action is attempted at most 3 times, and every call of
\* execute_actions ends (checked under FairSpec).
C17_BoundedAttemptsAndTermination ==
  /\ [](attempts <= max_retries + 1)
  /\ <>[](pc = "done")

\* C17 witness: an action had three attempts, none of them repaired by the
\* oracle (three connectivity failures), and the call has ended
C17_Witness ==
  /\ pc = "done"
  /\ attempts = 3
  /\ repairs = 0
  /\ abortCause = None

\* C18: the outcome of the final screenshot does not touch the result's
\* success flag or error: a run nothing aborted reports success and no
\* error, an aborted run reports the error that aborted it.
C18_ShotFailureSwallowed ==
  pc = "done" =>
    IF abortCause = None
      THEN result.success /\ result.error = None
      ELSE ~result.success /\ result.error = err

\* C18 witness: all actions of a non-empty plan succeeded, the session is
\* live, and the final capture failed
C18_Witness ==
  /\ pc = "done"
  /\ Len(plan) >= 1
  /\ \A k \in 1..Len(plan) : status[k] = "succeeded" /\ plan[k].action # "screenshot"
  /\ Connected(session, up)
  /\ result.screenshot = None
  /\ result.success

(***************************************************************************)
(* Properties of translate_command (checked under SpecTranslate).          *)
(***************************************************************************)
TrEnded == trPc \in {"returned", "raised"}

\* the action-extraction call got a reply (the oracle did not raise)
TrReplied == trHtmlReply \in ActionReplies

\* C11 (as claimed): when the reply to the action-extraction prompt cannot be
\* parsed as JSON, translate_command returns status=error with no action and
\* a message, and raises nothing.
C11_UnparsableGivesError ==
  (TrEnded /\ TrReplied /\ ~JsonLoads(JsonStr(trHtmlReply)).ok) =>
    /\ trPc = "returned"
    /\ trResponse.status = "error"
    /\ trResponse.actions = <<>>
    /\ trResponse.message # None

\* C12 (as claimed): status=ready only with a non-empty action list; a plan
\* without actions has status=error.
C12_ReadyMeansNonEmpty ==
  (trPc = "returned" /\ trResponse.actions = <<>>) => trResponse.status = "error"

\* an entry the action vocabulary accepts: an object with a known action
\* name and well-typed fields
ValidEntry(e) ==
  /\ e.json = "object"
  /\ e.action \in ActionTypes
  /\ e.time_ms \in {Absent, None}
KeptEntry(e) == ValidEntry(e) /\ e.action # "navigate"
ActionOf(e) ==
  BrowserAction(e.action, IF e.locator = Absent THEN None ELSE e.locator,
                None, None, None, None)
KeptActions(items) ==
  LET kept == SelectSeq(items, KeptEntry)
  IN  [k \in 1..Len(kept) |-> ActionOf(kept[k])]

\* C13 (as claimed): for an array mixing valid and invalid entries the plan
\* is ready and holds exactly the valid non-Navigate entries, in order.
C13_DropsOnlyInvalidEntries ==
  LET v == JsonStr(trHtmlReply)
  IN  ( /\ TrEnded
        /\ TrReplied
        /\ v.json = "array"
        /\ \E k \in 1..Len(v.items) : KeptEntry(v.items[k])
        /\ \E k \in 1..Len(v.items) : ~ValidEntry(v.items[k]) )
      => /\ trPc = "returned"
         /\ trResponse.status = "ready"
         /\ trResponse.actions = KeptActions(v.items)

\* C14: no plan translate_command returns holds a Navigate action.
C14_NoNavigateInPlan ==
  trPc = "returned" =>
    \A k \in 1..Len(trResponse.actions) : trResponse.actions[k].action # "navigate"

\* C14 witness: a ready plan made from an array that held a Navigate entry
C14_Witness ==
  /\ trPc = "returned"
  /\ trResponse.status = "ready"
  /\ Len(trResponse.actions) >= 1
  /\ trHtmlReply.payload.json = "array"
  /\ \E k \in 1..Len(trHtmlReply.payload.items) :
       trHtmlReply.payload.items[k].action = "navigate"

\* C15: once navigation has failed, translate_command makes no second oracle
\* call and ends by returning status=error with no action and a message.
C15_NavigationFailureAborts ==
  trNavOk = "failed" =>
    /\ trCalls = 1
    /\ trHtmlReply = NoReply
    /\ trPc \in {"except", "returned"}
    /\ trPc = "returned" =>
         /\ trResponse.status = "error"
         /\ trResponse.actions = <<>>
         /\ trResponse.message # None

\* C15 witness: the call returned after the session could not be started
C15_Witness ==
  /\ trPc = "returned"
  /\ trNavOk = "failed"
  /\ ~session.page
  /\ trResponse.status = "error"

(***************************************************************************)
(* Properties of stop_browser (checked under SpecSession).                 *)
(***************************************************************************)
\* C19 (as claimed): after stop_browser ends, normally or with an error, no
\* handle of the session remains held.
C19_StopReleasesAll == svcOp = "stop" => session = NoSession

\* C21: no call of start_browser, stop_browser, navigate_to_url or
\* troubleshoot_action (the only places translate_command and execute_actions
\* change the handles) assigns a handle that still holds a resource, and the
\* driver handle is None, the condition for creating a session, only when
\* every handle is None.
C21_OneSessionAtATime ==
  /\ svcLeaked = {}
  /\ ~session.playwright => session = NoSession

\* C21 witness: a session was created after the earlier one was released
C21_Witness ==
  /\ svcCalls >= 3
  /\ svcOp = "start"
  /\ svcPrev = [op |-> "stop", ok |-> TRUE]
  /\ svcBefore = NoSession
  /\ session = LiveSession

\* C20: stop_browser on a service without a session makes no close call,
\* returns and leaves every handle None; a stop_browser that returned left
\* no session, so this is also what a second call right after it does.
C20_StopIdempotent ==
  /\ (svcOp = "stop" /\ svcBefore = NoSession) =>
       (svcOk /\ svcCloses = 0 /\ session = NoSession)
  /\ (svcOp = "stop" /\ svcOk) => session = NoSession

\* C20 witness: a session was started and stopped, and stop_browser was
\* called once more
C20_Witness ==
  /\ svcCalls >= 3
  /\ svcOp = "stop"
  /\ svcPrev = [op |-> "stop", ok |-> TRUE]
  /\ svcBefore = NoSession
  /\ svcCloses = 0
  /\ svcOk

(***************************************************************************)
(* Properties of the router (checked under SpecRouter).                    *)
(***************************************************************************)
\* C22 (as claimed): while one request's plan is being executed, no other
\* request's translation or execution drives the session.
C22_SessionExclusive ==
  \A a \in Requests, b \in Requests :
    (a # b /\ rqPc[a] = "executing") => rqPc[b] \notin {"translating", "executing"}

\* C23 (as claimed): when /stop-browser has returned successfully, no
\* session remains live.
C23_StopAllReleasesEverySession ==
  rtLast = [op |-> "stopAll", ok |-> TRUE] => session = NoSession

\* C34 (as claimed): a finished background execution has appended exactly
\* one history record and left the status completed for a successful result
\* and failed for any other.
C34_OneHistoryRecordAndStatus ==
  \A r \in Requests :
    rqPc[r] = "finished" =>
      /\ Cardinality({k \in 1..Len(history) : history[k] = r}) = 1
      /\ dbStatus[r] = (IF executionResults[r] = "success" THEN "completed" ELSE "failed")

\* the client of request r gave up: all its polls were answered "in progress"
TimedOut(r) == rqPoll[r].polls = MaxPolls /\ rqPoll[r].answer = "in_progress"

\* a status query made before the execution finished was answered "in
\* progress", one made after it with the finished result
AnswersFollowExecution ==
  \A r \in Requests :
    rqPoll[r].polls > 0 =>
      IF rqPoll[r].finished THEN rqPoll[r].answer = executionResults[r]
      ELSE rqPoll[r].answer = "in_progress"

Shape(res) == [res EXCEPT !.error = None]

\* the results execute_actions returns when an action fails on a started
\* session, the dead session and the failed screenshot included
ActionFailureResults ==
  { FinalScreenshot(FailResult(NewResult, e), LiveSession, u, shotOk) :
      e \in {E_TIMEOUT, E_VALUE, E_CLOSED}, u \in BOOLEAN, shotOk \in BOOLEAN }

\* C35 (as claimed): the result of an execute_actions whose start_browser
\* failed differs from every result of a failed action in a field other
\* than the error text.
C35_StartFailureDistinguishable ==
  (pc = "done" /\ abortCause = "session" /\ result.error = E_START) =>
    \A other \in ActionFailureResults : Shape(result) # Shape(other)

\* C36 (as claimed): when start_browser has returned normally the instance
\* holds the driver, the browser, the context and the page.
C36_StartLeavesUsableSession ==
  (svcOp = "start" /\ svcOk) => \A h \in DOMAIN session : session[h]

\* C37 (as claimed): of the start_browser calls running at once at most one
\* launches a driver and at most one a browser, and every handle created is
\* still the one its attribute holds.
C37_ConcurrentStartLaunchesOnce ==
  /\ \A h \in {"playwright", "browser"} :
       Cardinality({x \in coLaunched : x[1] = h}) <= 1
  /\ \A x \in coLaunched : coOwner[x[1]] = x[2]

\* C27: execute_actions leaves the list it was given as it was, in every
\* step, and each action of the list starts from the list's own element,
\* whatever replacement the repair of an earlier action produced.
C27_PlanNeverMutated ==
  [][plan' = plan /\ (i' # i => action' = plan[i'])]_vars

\* C27 witness: the run returned while a replacement suggested by the oracle
\* was in use for the last action attempted
C27_Witness ==
  /\ pc = "done"
  /\ i >= 1
  /\ repairs >= 1
  /\ action # plan[i]

\* C28 (as claimed): an attempt that starts on a session that is present but
\* dead ends with the session recreated and the retries as they were.
C28_ProbeBeforeEveryAttempt ==
  [][(pc = "attempt" /\ session.page /\ session.browser /\ ~up /\ pc' # pc)
       => (up' /\ retries' = retries)]_vars

(***************************************************************************)
(* Properties of _create_html_based_action_prompt (checked under           *)
(* SpecPrompt).                                                            *)
(***************************************************************************)
\* C24 (as claimed): sanitizing sanitized markup changes nothing.
C24_SanitizeIdempotent == htmlPc = "again" => htmlAgain = htmlClean

\* C25 (as claimed): the content embedded in the prompt is at most 15000
\* characters long.
C25_ContentWithinCap == htmlPc = "escaped" => TotalLen(htmlEscaped) <= 15000

\* the pieces of h without a trailing truncation marker
Unmarked(h) == IF h # <<>> /\ h[Len(h)] = Marker THEN SubSeq(h, 1, Len(h) - 1) ELSE h

SectionRank(p) ==
  CASE p.kind = "form" -> 1 [] p.kind = "main" -> 2 [] p.kind = "article" -> 3 [] OTHER -> 0

\* the number of sections of markup h: forms (nested ones too), mains, articles
SectionCount(h) ==
  Cardinality({k \in 1..Len(h) : h[k].kind \in {"form", "main", "article"}})
    + Cardinality({k \in 1..Len(h) : h[k].form > 0})

\* C26: content within the cap is passed on unchanged; content over the cap
\* with no form, main or article section is cut at the cap and marked; with
\* such sections the content is the forms, then the mains, then the
\* articles, all of them and unmarked when they fit the cap, else cut at the
\* cap and marked.
C26_SectionsBeforeTruncation ==
  htmlPc \in {"capped", "escaped"} =>
    LET c == htmlCapped
        body == Unmarked(c)
        marked == c # body
    IN  IF TotalLen(htmlClean) <= 15000 THEN c = htmlClean
        ELSE IF SectionCount(htmlClean) = 0
          THEN /\ marked
               /\ TotalLen(body) = 15000
               /\ \A k \in 1..Len(body) : body[k].kind = htmlClean[k].kind
        ELSE /\ \A k \in 1..Len(body) : SectionRank(body[k]) > 0
             /\ \A j \in 1..Len(body), k \in 1..Len(body) :
                  j < k => SectionRank(body[j]) <= SectionRank(body[k])
             /\ IF marked THEN TotalLen(body) = 15000
                ELSE Len(body) = SectionCount(htmlClean) /\ TotalLen(body) <= 15000

\* C26 witness: content over the cap whose sections (a form, and a main
\* holding a form) fit the cap
C26_Witness ==
  /\ htmlPc = "capped"
  /\ TotalLen(htmlClean) > 15000
  /\ Len(htmlCapped) = 3
  /\ htmlCapped[3].kind = "main"
  /\ htmlCapped[1].kind = "form"

\* the url's text begins with http:// or https://
HasScheme(segs) == Len(segs) >= 2 /\ segs[1] = "http" /\ segs[2] \in {"://", "s://"}

\* C31 (as claimed): the url translate_command navigates to carries an
\* http:// or https:// scheme.
C31_UrlCarriesScheme ==
  (trPc \notin {"idle", "url"} /\ trUrl # <<>>) => HasScheme(trUrl)

\* the order of translate_command's oracle calls and page operations
CallOrder == << "url_call", "navigate", "content", "actions_call" >>

\* C30: a translate_command call makes at most two oracle calls; its oracle
\* calls and page operations come in the order url call, navigation,
\* content fetch, actions call, each at most once and the url call exactly
\* once; the actions call is made only after navigation and content fetch
\* succeeded.
C30_TwoOracleCallsInOrder ==
  /\ trCalls <= 2
  /\ trCalls = Cardinality({k \in 1..Len(trLog) : trLog[k].op \in {"url_call", "actions_call"}})
  /\ Len(trLog) <= Len(CallOrder)
  /\ \A k \in 1..Len(trLog) : k <= Len(CallOrder) /\ trLog[k].op = CallOrder[k]
  /\ trPc \notin {"idle", "url"} => Len(trLog) >= 1
  /\ \A k \in 1..Len(trLog) :
       trLog[k].op = "actions_call" =>
         \A j \in 1..(k - 1) : trLog[j].op \in {"navigate", "content"} => trLog[j].ok

\* C30 witness: a call that returned after both oracle calls
C30_Witness ==
  /\ trPc = "returned"
  /\ trCalls = 2
  /\ Len(trLog) = 4
  /\ trLog[4].ok

(***************************************************************************)
(* Properties of troubleshoot_action (checked under SpecTroubleshoot).     *)
(***************************************************************************)
\* the oracle was asked and troubleshoot_action is over
TsAnswered == tsPc = "returned" /\ tsResult.asked

\* the value that _parse_troubleshooting_response takes from the reply is a
\* non-empty object
TsExtractsObject ==
  /\ tsReply.form # "raises"
  /\ \/ tsReply.form = "fenced" /\ tsReply.payload.json = "object" /\ tsReply.payload.truthy
     \/ tsReply.form # "fenced" /\ Len(tsReply.payload.objs) = 1
                                /\ tsReply.payload.objs[1] # EmptyObject

\* C29 (as claimed): the original action is returned, and nothing raised,
\* when the reply is unparsable text, an empty object, a JSON value that is
\* not an object, an object with an unknown action name, or the oracle throws.
C29_UnusableReplyKeepsAction ==
  (/\ TsAnswered
   /\ \/ tsReply.form = "raises"
      \/ tsReply.payload.json # "object"
      \/ tsReply.payload = TsObject(EmptyObject)
      \/ tsReply.payload = TsObject(Suggestion("dance", "#go")))
    => (tsResult.action = action /\ ~tsResult.raised)

\* C29 (amended): the original action is returned, and nothing raised, when
\* the oracle throws, when the fence, else the span from the first "{" to
\* the last "}", else the whole reply holds no non-empty JSON object, or
\* when that object names an unknown action.
C29_NoObjectExtractedKeepsAction ==
  /\ tsPc = "returned" => ~tsResult.raised
  /\ (/\ TsAnswered
      /\ \/ ~TsExtractsObject
         \/ \E o \in {tsReply.payload.objs[k] : k \in 1..Len(tsReply.payload.objs)} :
              o.action # Absent /\ o.action \notin ActionTypes)
       => tsResult.action = action

\* C29 witness: a fenced array that holds a suggestion was answered with the
\* original action
C29_Witness ==
  /\ TsAnswered
  /\ tsReply.form = "fenced"
  /\ tsReply.payload = TsValue("array", TRUE, << Suggestion(Absent, "#go") >>)
  /\ tsResult.action = action
  /\ action.locator = "#missing"

\* the object _parse_troubleshooting_response takes from the reply, the
\* empty object when it takes none
TsObjectTaken ==
  IF ~TsExtractsObject THEN EmptyObject
  ELSE tsReply.payload.objs[1]

\* C39: the action troubleshoot_action returns has, in every field the
\* oracle's object does not mention, the value of the failed action, and
\* when it differs from the failed action, in every field the object
\* mentions the object's value.
C39_UnmentionedFieldsKept ==
  TsAnswered =>
    \A k \in DOMAIN action :
      IF TsObjectTaken[k] = Absent THEN tsResult.action[k] = action[k]
      ELSE tsResult.action # action => tsResult.action[k] = TsObjectTaken[k]

\* C39 witness: a failed click on "#missing" came back as a click on "#go",
\* the suggestion naming the locator only
C39_Witness ==
  /\ TsAnswered
  /\ TsObjectTaken = Suggestion(Absent, "#go")
  /\ action = BrowserAction("click", "#missing", None, None, None, None)
  /\ tsResult.action = BrowserAction("click", "#go", None, None, None, None)

\* C40 (as claimed): the oracle is asked only on a session that answers;
\* without a session, or with a dead one, troubleshoot_action returns the
\* original action, and a dead session is not what it leaves behind.
C40_NoOracleOnLostSession ==
  tsPc = "returned" =>
    /\ tsResult.asked => Connected(session, up)
    /\ ~tsResult.asked =>
         /\ tsResult.action = action
         /\ ~tsResult.raised
         /\ session.page => up

(***************************************************************************)
(* Properties of the fallback chains (checked under SpecHandlers and       *)
(* SpecFill).                                                              *)
(***************************************************************************)
\* in the steps a call ran, only the last one succeeded, if any
StopsAtFirstSuccess(trace) ==
  \A k \in 1..Len(trace) : trace[k].ok => k = Len(trace)

\* C32: in _handle_click and in _handle_fill every step that ran before the
\* last one failed, so a call makes at most one successful click or fill.
C32_ChainStopsAtFirstSuccess ==
  /\ clickPc = "returned" => StopsAtFirstSuccess(clickResult.trace)
  /\ fillPc = "returned" => StopsAtFirstSuccess(fillResult.trace)

\* C32 witness: a fill that went through the direct fill and two form-field
\* selectors before the third one filled the input
C32_Witness ==
  /\ fillPc = "returned"
  /\ Len(fillResult.trace) = 4
  /\ fillResult.trace[4].step = "user"
  /\ fillResult.trace[4].ok
  /\ fillResult.clicked = Field

\* C33: _handle_fill returns normally exactly when one of its steps filled an
\* element; when every step failed it raises the error of the last step.
C33_FillReturnsIffFilled ==
  fillPc = "returned" =>
    /\ ~fillResult.raised <=> fillResult.clicked # NoElement
    /\ fillResult.raised =>
         /\ \A k \in 1..Len(fillResult.trace) : ~fillResult.trace[k].ok
         /\ fillResult.trace[Len(fillResult.trace)].step = "last"
         /\ fillResult.error = LastFillError(fillIn.s, Connected(fillIn.s, fillIn.up))

\* C33 witness: every step of the chain for a labelled field failed on a live
\* page and the timeout of the last fill reached the caller
C33_Witness ==
  /\ fillPc = "returned"
  /\ fillResult.raised
  /\ fillResult.error = E_TIMEOUT
  /\ Len(fillResult.trace) >= 3

(***************************************************************************)
(* Properties of _handle_click (checked under SpecClick).                  *)
(***************************************************************************)
\* the visible elements among those the raw locator resolves to
VisibleMatches ==
  { k \in 1..Len(clickPage.raw[clickLocator]) :
      clickPage.raw[clickLocator][k] \in clickPage.visible }

\* C9 (as claimed): _handle_click never returns normally without having
\* clicked an element.
C9_ReturnMeansClicked ==
  (clickPc = "returned" /\ ~clickResult.raised) => clickResult.clicked # NoElement

\* C10 (as claimed): with 3 matches of which exactly one is visible,
\* _handle_click returns and has clicked that visible match.
C10_ClicksTheVisibleMatch ==
  ( /\ clickPc = "returned"
    /\ Connected(clickSession, clickUp)
    /\ Len(clickPage.raw[clickLocator]) = 3
    /\ Cardinality(VisibleMatches) = 1 )
  => /\ ~clickResult.raised
     /\ \E k \in VisibleMatches : clickResult.clicked = clickPage.raw[clickLocator][k]

=============================================================================
